---------------------------- MODULE Spec2Model ----------------------------
(***************************************************************************)
(* PyPGKit: the fork-aware pool manager (pypgkit/connection.py) and the    *)
(* Database facade (pypgkit/database.py) as a state machine.               *)
(*                                                                         *)
(* The model follows the memory of ONE process.  Its threads run the       *)
(* library's operations one statement group at a time; a section that the  *)
(* code runs while holding ConnectionPoolSingleton._lock and that never    *)
(* blocks is one step, the unlocked reads around it are steps of their     *)
(* own.  Fork switches the model to the child: the memory is copied as it  *)
(* is, os.getpid() changes, and only the forking thread survives.          *)
(* Object references are naturals, NoneId standing for Python's None.      *)
(***************************************************************************)
EXTENDS Integers, Sequences, FiniteSets, TLC

\* Python's None, for object references (managers, pools, facades, pids).
NoneId == 0

\* Total number of calls (and forks) the threads start in one behaviour: of the
\* pool manager's operations, and of the facade's.
MaxOps == 4
MaxDbOps == 3

Threads == {"t1", "t2"}

\* The configurations callers pass; "None" is the omitted argument.
Configs == {"c1", "c2"}
NoConfig == "None"

\* The repository's table has an integer primary key `id`, filled from a
\* sequence when a row brings none, and one more column, `name`.  MaxId bounds
\* the ids in use; MaxSqlOps the calls of the data path in one behaviour.
MaxId == 2
MaxSqlOps == 3

Ids == 1..MaxId
Names == {"a", "b"}
MigrationNames == {"m1"}

\* A key a converted row does not have (the id: 0), a column that is NULL.
NoName == "null"
\* In the table: no row with that id.  In a transaction: row not written.
Absent == "absent"
Untouched == "untouched"

VARIABLES
    pid,              \* os.getpid() of the process the model follows
    pool_pid,         \* connection._pool_pid
    cls_instance,     \* ConnectionPoolSingleton._instance
    cls_initialized,  \* ConnectionPoolSingleton._initialized (class attribute)
    lock,             \* ConnectionPoolSingleton._lock: "free", its owner, or
                      \*   "orphan" (held by a thread that the fork left behind)
    mgr,              \* the ConnectionPoolSingleton objects, by reference
    pools,            \* the psycopg_pool.ConnectionPool objects, by reference
    db_instance,      \* Database._instance
    dbs,              \* the Database objects user code can reach, by reference
    pc,               \* per thread: the statement it is about to run
    fr,               \* per thread: the running call's arguments, locals, result
    ops,              \* operations started so far
    conns,            \* history: connections handed out, with the pid that got them
    provDone,         \* history: successful provisioning runs (ensure_database)
    schemaDone,       \* history: successful schema applications
    hist_init,        \* history: facade returned by the last successful init()
                      \*   that no reset_instance() has followed
    tbl,              \* server: committed rows of the repository's table, by id
    serial,           \* server: next value of the table's id sequence
    migs,             \* server: committed names in _pypgkit_migrations
    sqlCount,         \* server: per migration, how often its SQL was run and
                      \*   how often its effect was committed
    out,              \* connections checked out of the pool
    cx,               \* per thread: the connection it holds and the locals of
                      \*   the facade / repository call it runs
    made,             \* history: entities create() returned whose row no
                      \*   transaction has written since
    gone,             \* history: ids a delete() removed and no transaction
                      \*   has inserted since
    mlog              \* history: the finished run_migration calls, in order,
                      \*   with what each returned and made durable

poolVars == <<pool_pid, cls_instance, cls_initialized, lock, mgr, pools>>
dbVars == <<db_instance, dbs>>
histVars == <<conns, provDone, schemaDone, hist_init>>
sqlVars == <<tbl, serial, migs, sqlCount, out, cx, made, gone, mlog>>
vars == <<pid, pool_pid, cls_instance, cls_initialized, lock, mgr, pools,
          db_instance, dbs, pc, fr, ops, conns, provDone, schemaDone, hist_init,
          tbl, serial, migs, sqlCount, out, cx, made, gone, mlog>>

\* A thread's frame between calls.
\* A float: a number or not-a-number.
Num(v) == [kind |-> "num", v |-> v]
NaN == [kind |-> "nan", v |-> 0]

Blank ==
    [op |-> "none", cfg |-> NoConfig, self |-> NoneId, db |-> NoneId,
     auto |-> FALSE, schema |-> FALSE, m0 |-> NoneId, forked |-> FALSE,
     ret |-> NoneId, err |-> "none", pool |-> NoneId, log |-> <<>>,
     fields |-> [port |-> 5432, min_connections |-> 1, max_connections |-> 10,
                 connection_timeout |-> Num(30), sslmode |-> "prefer"]]

\* A thread's data-path locals between calls:
\*   op, arg, conds, id,        the call and its arguments
\*   mname, skip
\*   blk                        how the caller's scoped block will end
\*   need                       ids the call may still draw from the sequence
\*   shape, part, stmts         the facade function it is in, what is left to run
\*   held, intrans              the connection and its open transaction, whose
\*   pend, pmarks, psql           writes are rows, migration names, migration SQL
\*   res, rowcount, issued      the cursor's rows and count, statements sent
\*   body, exc                  how the block ended ("ok" or its error), the
\*                                exception in flight
\*   commits, rollbacks         the facade's conn.commit() / conn.rollback() calls
\*   saved                      what the call's commits made durable
\*   result, flag, num          the value returned: entities, a bool, a count
\*   cause                      the __cause__ of the error raised
\*   conv, obj, row, again      update(): whether _entity_to_row copies or
\*                              returns the entity itself, the caller's entity
\*                              object as a mapping, the mapping that
\*                              _entity_to_row returned, and whether the
\*                              caller passes the object a second time
BlankCx ==
    [op |-> "none", arg |-> <<>>, conds |-> <<>>, id |-> 0, mname |-> NoName,
     skip |-> FALSE, blk |-> "ok", need |-> 0, shape |-> "none", part |-> 0, stmts |-> <<>>,
     held |-> FALSE, intrans |-> FALSE,
     pend |-> [i \in Ids |-> Untouched], pmarks |-> {}, psql |-> {},
     res |-> <<>>, rowcount |-> 0, issued |-> 0, body |-> "none", exc |-> "none",
     commits |-> 0, rollbacks |-> 0,
     saved |-> [rows |-> {}, gone |-> {}, sql |-> {}, marks |-> {}],
     result |-> <<>>, flag |-> "none", num |-> 0, cause |-> "none",
     conv |-> "copy", obj |-> [cols |-> {}, id |-> 0, name |-> NoName],
     row |-> [cols |-> {}, id |-> 0, name |-> NoName], again |-> FALSE]

InitFacades(facades) ==
    /\ pid = 1
    /\ pool_pid = NoneId
    /\ cls_instance = NoneId
    /\ cls_initialized = FALSE
    /\ lock = "free"
    /\ mgr = <<>>
    /\ pools = <<>>
    /\ db_instance = NoneId
    /\ dbs = facades
    /\ pc = [t \in Threads |-> "idle"]
    /\ fr = [t \in Threads |-> Blank]
    /\ ops = 0
    /\ conns = {}
    /\ provDone = 0
    /\ schemaDone = 0
    /\ hist_init = NoneId
    /\ tbl = [i \in Ids |-> Absent]
    /\ serial = 1
    /\ migs = {}
    /\ sqlCount = [m \in MigrationNames |-> [run |-> 0, done |-> 0]]
    /\ out = 0
    /\ cx = <<>>        \* no thread is inside a data-path call
    /\ made = {}
    /\ gone = {}
    /\ mlog = <<>>

\* Nothing constructed yet.
Init == InitFacades(<<>>)

MgrIds == 1..Len(mgr)
PoolIds == 1..Len(pools)
DbIds == 1..Len(dbs)

IsInitialized_ClassOnly(m) == cls_initialized

\* `self._initialized`: the instance attribute when __init__ has set it, the
\* class attribute otherwise.
IsInitialized(m) == IF mgr[m].init_attr THEN TRUE ELSE cls_initialized

\* The managers user code holds a reference to: those a call has returned.
Handles == {m \in MgrIds : mgr[m].init_attr}

\* The object super().__new__(cls) returns: no instance attribute is set yet.
NewMgr ==
    [pid |-> pid, attrs |-> FALSE, config |-> NoConfig, pool |-> NoneId,
     closed |-> FALSE, init_attr |-> FALSE]

Go(t, label, frame) ==
    /\ pc' = [pc EXCEPT ![t] = label]
    /\ fr' = [fr EXCEPT ![t] = frame]

\* What user code keeps of a finished call: which call it was, the
\* configuration it passed, whether it met a fork, and what came back.
Finished(frame) ==
    [Blank EXCEPT !.op = frame.op,
                  !.cfg = IF frame.op \in {"acquire", "db_init"}
                          THEN frame.cfg ELSE NoConfig,
                  !.forked = frame.forked, !.ret = frame.ret,
                  !.err = frame.err, !.pool = frame.pool,
                  !.log = IF frame.op \in {"close", "return_connection",
                                           "reset"}
                          THEN frame.log ELSE <<>>,
                  !.fields = frame.fields]

\* The call returns normally / raises: the thread is back in user code.
Return(t, frame) == Go(t, "idle", Finished(frame))
Raise(t, e) == Go(t, "idle", Finished([fr[t] EXCEPT !.err = e]))

(***************************************************************************)
(* Starting a call.  The frame holds the arguments; the first statement    *)
(* runs in the thread's next step.                                         *)
(***************************************************************************)
AcquireCalls ==
    {[Blank EXCEPT !.op = "acquire", !.cfg = c] : c \in Configs \cup {NoConfig}}

MgrCalls ==
    {[Blank EXCEPT !.op = k, !.self = m] :
        k \in {"close", "pool_prop", "get_connection", "mgr_connection"},
        m \in Handles}

ResetCalls == {[Blank EXCEPT !.op = "reset"]}

DbInitCalls ==
    {[Blank EXCEPT !.op = "db_init", !.cfg = c, !.auto = a, !.schema = s] :
        c \in Configs, a \in BOOLEAN, s \in BOOLEAN}

DbClassCalls ==
    {[Blank EXCEPT !.op = k] : k \in {"get_instance", "reset_instance"}}
        \cup {[Blank EXCEPT !.op = "db_new", !.cfg = c] : c \in Configs}

DbCalls ==
    {[Blank EXCEPT !.op = k, !.db = d] :
        k \in {"connect", "disconnect", "query"}, d \in DbIds}

PoolCalls == AcquireCalls \cup MgrCalls \cup ResetCalls

FacadeCalls == DbInitCalls \cup DbClassCalls \cup DbCalls

FirstPc(op) ==
    CASE op = "acquire" -> "new"
      [] op = "close" -> "close"
      [] op = "reset" -> "reset"
      [] op = "pool_prop" -> "pool_prop"
      [] op = "get_connection" -> "get_conn"
      [] op = "return_connection" -> "ret_conn"
      [] op = "config" -> "post_init"
      [] op = "mgr_connection" -> "mgr_conn"
      [] op = "db_new" -> "db_new"
      [] op = "db_init" -> "di_chk"
      [] op = "get_instance" -> "gi"
      [] op = "reset_instance" -> "rs_chk"
      [] op = "connect" -> "dc_chk"
      [] op = "disconnect" -> "dd_chk"
      [] op = "query" -> "q_pool"

\* A thread in user code may make its next call.
MayStart(t, bound) ==
    /\ pc[t] = "idle"
    /\ ops < bound

Start(t, calls, bound) ==
    /\ MayStart(t, bound)
    /\ \E c \in calls : Go(t, FirstPc(c.op), c)
    /\ ops' = ops + 1
    /\ UNCHANGED <<pid, poolVars, dbVars, histVars, sqlVars>>

(***************************************************************************)
(* ConnectionPoolSingleton(config) / get_pool(config): __new__, __init__.  *)
(***************************************************************************)

\* Where the caller goes on once ConnectionPoolSingleton(config) returned r.
AcqReturn(t, r) ==
    LET f == [fr[t] EXCEPT !.ret = r] IN
    CASE fr[t].op = "acquire" -> Return(t, f)
      [] fr[t].op = "db_init" ->
            Go(t, "di_store", [f EXCEPT !.log = Append(@, "pool")])
      [] OTHER -> Go(t, "dc_set", f)

\* __new__, line 53: the pool was created under another pid.
ForkDetected == pool_pid # NoneId /\ pool_pid # pid

PoolsAfterForkReset_Closing ==
    IF cls_instance # NoneId /\ mgr[cls_instance].pool # NoneId
    THEN [pools EXCEPT ![mgr[cls_instance].pool].closes = @ + 1]
    ELSE pools

\* __new__, lines 55-58: what the fork branch does to the pool objects: nothing.
PoolsAfterForkReset == pools

\* __new__, lines 50-53.  m0 and forked are history: the singleton of this
\* process the call found on entry, if its __init__ had completed (line 94),
\* and whether the call found a fork.
New_ForkCheck(t) ==
    /\ pc[t] = "new"
    /\ Go(t, IF ForkDetected THEN "new_forkreset" ELSE "new_chk",
          [fr[t] EXCEPT
              !.forked = ForkDetected,
              !.m0 = IF /\ cls_instance # NoneId
                        /\ mgr[cls_instance].init_attr
                        /\ pool_pid = pid
                     THEN cls_instance ELSE NoneId])
    /\ UNCHANGED <<pid, ops, poolVars, dbVars, histVars, sqlVars>>

\* __new__, lines 55-61, under the lock.
New_ForkReset(t) ==
    /\ pc[t] = "new_forkreset"
    /\ lock = "free"
    /\ cls_instance' = NoneId
    /\ cls_initialized' = FALSE
    /\ pool_pid' = NoneId
    /\ pools' = PoolsAfterForkReset
    /\ Go(t, "new_chk", fr[t])
    /\ UNCHANGED <<pid, ops, lock, mgr, dbVars, histVars, sqlVars>>

\* __new__, line 63: the unlocked first check.
New_Check(t) ==
    /\ pc[t] = "new_chk"
    /\ Go(t, IF cls_instance = NoneId THEN "new_create" ELSE "new_ret", fr[t])
    /\ UNCHANGED <<pid, ops, poolVars, dbVars, histVars, sqlVars>>

\* __new__, lines 64-68: the second check and the creation, under the lock.
New_Create(t) ==
    /\ pc[t] = "new_create"
    /\ lock = "free"
    /\ IF cls_instance = NoneId
       THEN /\ mgr' = Append(mgr, NewMgr)
            /\ cls_instance' = Len(mgr) + 1
            /\ pool_pid' = pid
       ELSE UNCHANGED <<mgr, cls_instance, pool_pid>>
    /\ Go(t, "new_ret", fr[t])
    /\ UNCHANGED <<pid, ops, cls_initialized, lock, pools, dbVars,
                   histVars, sqlVars>>

\* __new__, line 69.  Python runs __init__ only on an instance of the class:
\* when a reset() emptied cls._instance in between, the call returns None.
New_Return(t) ==
    /\ pc[t] = "new_ret"
    /\ IF cls_instance = NoneId
       THEN AcqReturn(t, NoneId)
       ELSE Go(t, "init_chk", [fr[t] EXCEPT !.self = cls_instance])
    /\ UNCHANGED <<pid, ops, poolVars, dbVars, histVars, sqlVars>>

\* __init__, lines 78-79: the unlocked first check.
Init_Check(t) ==
    /\ pc[t] = "init_chk"
    /\ IF IsInitialized(fr[t].self)
       THEN AcqReturn(t, fr[t].self)
       ELSE Go(t, "init_lock", fr[t])
    /\ UNCHANGED <<pid, ops, poolVars, dbVars, histVars, sqlVars>>

InitRecheck_Missing(m) == FALSE

\* __init__, lines 82-83: the check repeated under the lock.
InitRecheck(m) == IsInitialized(m)

\* __init__, lines 81-92: takes the lock and keeps it over _create_pool.
Init_Lock(t) ==
    LET m == fr[t].self IN
    /\ pc[t] = "init_lock"
    /\ lock = "free"
    /\ IF InitRecheck(m)
       THEN AcqReturn(t, m) /\ UNCHANGED <<mgr, lock>>
       ELSE IF fr[t].cfg = NoConfig
            THEN Raise(t, "DatabaseConnectionError") /\ UNCHANGED <<mgr, lock>>
            ELSE /\ mgr' = [mgr EXCEPT ![m] =
                        [@ EXCEPT !.attrs = TRUE, !.config = fr[t].cfg,
                                  !.pool = NoneId, !.closed = FALSE]]
                 /\ lock' = t
                 /\ Go(t, "create_pool", fr[t])
    /\ UNCHANGED <<pid, ops, pool_pid, cls_instance, cls_initialized, pools,
                   dbVars, histVars, sqlVars>>

\* How _create_pool can end: the pool is ready; get_connection_kwargs() or
\* the ConnectionPool constructor raises; pool.wait() raises.
CreateOutcomes == {"ok", "ctor_fail", "wait_fail"}

PoolsAfterCreate_NoTeardown(outcome) ==
    IF outcome \in {"ok", "wait_fail"}
    THEN Append(pools, [pid |-> pid, closes |-> 0])
    ELSE pools

\* _create_pool, lines 100-129: the pool objects afterwards.  A pool whose
\* wait() failed was constructed and is closed in the except branch.
PoolsAfterCreate(outcome) ==
    CASE outcome = "ok" ->
            Append(pools, [pid |-> pid, closes |-> 0])
      [] outcome = "wait_fail" ->
            Append(pools, [pid |-> pid, closes |-> 1])
      [] OTHER -> pools

\* _create_pool and __init__ line 94, then the lock is released.
CreatePool(t, outcomes) ==
    LET m == fr[t].self IN
    /\ pc[t] = "create_pool"
    /\ \E o \in outcomes :
        /\ pools' = PoolsAfterCreate(o)
        /\ IF o = "ok"
           THEN /\ mgr' = [mgr EXCEPT ![m].pool = Len(pools) + 1,
                                      ![m].init_attr = TRUE]
                /\ AcqReturn(t, m)
           ELSE /\ mgr' = [mgr EXCEPT ![m].pool = NoneId]
                /\ Raise(t, "DatabaseConnectionError")
    /\ lock' = "free"
    /\ UNCHANGED <<pid, ops, pool_pid, cls_instance, cls_initialized,
                   dbVars, histVars, sqlVars>>

(***************************************************************************)
(* close(), reset(), pool, get_connection(), connection().                 *)
(***************************************************************************)

\* close(), line 185.  An instance __init__ never ran on has no _pool
\* attribute: the read raises AttributeError before anything is done.
CloseActs(m) == mgr[m].attrs /\ mgr[m].pool # NoneId /\ ~mgr[m].closed

MgrAfterClose_NotMarked(m) == mgr

\* close(), lines 186-188.
MgrAfterClose(m) ==
    IF CloseActs(m)
    THEN [mgr EXCEPT ![m].closed = TRUE, ![m].pool = NoneId]
    ELSE mgr

\* close(), line 191: pool.close(timeout=0) is invoked on the pool.
PoolsAfterClose(m) ==
    IF CloseActs(m)
    THEN [pools EXCEPT ![mgr[m].pool].closes = @ + 1]
    ELSE pools

Suppressed_Reraised(e) == e

\* `except Exception as e: logger.warning(...)`: the error that leaves the
\* handler.
Suppressed(e) == "none"

\* The call ends after its handler has logged a warning for error e.
Warned(t, e) ==
    LET f == [fr[t] EXCEPT !.log = Append(@, "warning")] IN
    IF Suppressed(e) = "none"
    THEN Return(t, f)
    ELSE Go(t, "idle", Finished([f EXCEPT !.err = Suppressed(e)]))

Close(t, outcomes) ==
    /\ pc[t] = "close"
    /\ lock = "free"
    /\ mgr' = MgrAfterClose(fr[t].self)
    /\ pools' = PoolsAfterClose(fr[t].self)
    /\ \E o \in outcomes \cap {"ok", "close_fail"} :
        IF o = "ok"
        THEN Return(t, fr[t])
        ELSE CloseActs(fr[t].self) /\ Warned(t, "OperationalError")
    /\ UNCHANGED <<pid, ops, pool_pid, cls_instance, cls_initialized, lock,
                   dbVars, histVars, sqlVars>>

\* reset(), lines 221-228, under the lock; close()'s exceptions are suppressed.
DoReset ==
    /\ lock = "free"
    /\ mgr' = IF cls_instance # NoneId THEN MgrAfterClose(cls_instance) ELSE mgr
    /\ pools' = IF cls_instance # NoneId THEN PoolsAfterClose(cls_instance)
                ELSE pools
    /\ cls_instance' = NoneId
    /\ cls_initialized' = FALSE
    /\ pool_pid' = NoneId
    /\ UNCHANGED lock

Reset(t, outcomes) ==
    /\ pc[t] = "reset"
    /\ DoReset
    /\ \E o \in outcomes \cap {"ok", "close_fail"} :
        IF o = "ok"
        THEN Return(t, fr[t])
        ELSE /\ cls_instance # NoneId /\ CloseActs(cls_instance)
             /\ Warned(t, "OperationalError")
    /\ UNCHANGED <<pid, ops, dbVars, histVars, sqlVars>>

\* The pool property, lines 141-143.
PoolProp(t) ==
    LET m == fr[t].self IN
    /\ pc[t] = "pool_prop"
    /\ IF mgr[m].pool = NoneId
       THEN Raise(t, "DatabaseConnectionError")
       ELSE Return(t, [fr[t] EXCEPT !.pool = mgr[m].pool])
    /\ UNCHANGED <<pid, ops, poolVars, dbVars, histVars, sqlVars>>

\* A connection is taken from manager m's pool (getconn() or the pool's own
\* connection() block); the driver may fail, raising `wrapped`.
Checkout(t, m, wrapped) ==
    IF mgr[m].pool = NoneId
    THEN Raise(t, "DatabaseConnectionError") /\ UNCHANGED conns
    ELSE \E ok \in BOOLEAN :
            IF ok
            THEN /\ Return(t, [fr[t] EXCEPT !.pool = mgr[m].pool])
                 /\ conns' = conns \cup {[pool |-> mgr[m].pool, pid |-> pid]}
            ELSE Raise(t, wrapped) /\ UNCHANGED conns

\* get_connection(), lines 156-160: every failure is wrapped.
GetConnection(t) ==
    /\ pc[t] = "get_conn"
    /\ Checkout(t, fr[t].self, "DatabaseConnectionError")
    /\ UNCHANGED <<pid, ops, poolVars, dbVars, provDone, schemaDone,
                   hist_init, sqlVars>>

\* return_connection(), lines 169-171: self.pool.putconn(conn) inside the
\* try; the pool property's error and the driver's are logged.
ReturnConnection(t, outcomes) ==
    LET m == fr[t].self IN
    /\ pc[t] = "ret_conn"
    /\ IF mgr[m].pool = NoneId
       THEN Warned(t, "DatabaseConnectionError") /\ UNCHANGED conns
       ELSE \E o \in outcomes \cap {"ok", "put_fail"} :
               IF o = "ok"
               THEN /\ Return(t, fr[t])
                    /\ conns' = conns \ {[pool |-> mgr[m].pool, pid |-> pid]}
               ELSE Warned(t, "OperationalError") /\ UNCHANGED conns
    /\ UNCHANGED <<pid, ops, poolVars, dbVars, provDone, schemaDone,
                   hist_init, sqlVars>>

\* connection(), line 180: the pool's own error leaves unwrapped.
MgrConnection(t) ==
    /\ pc[t] = "mgr_conn"
    /\ Checkout(t, fr[t].self, "PoolTimeout")
    /\ UNCHANGED <<pid, ops, poolVars, dbVars, provDone, schemaDone,
                   hist_init, sqlVars>>

(***************************************************************************)
(* DatabaseConfig(...): the dataclass stores the fields and __post_init__   *)
(* validates them.                                                         *)
(***************************************************************************)
MaxPort == 65535

ValidSslModes ==
    {"disable", "allow", "prefer", "require", "verify-ca", "verify-full"}

\* x <= 0 on floats: False when x is not a number.
LessEqZero(x) == x.kind = "num" /\ x.v <= 0

\* _validate(): the first failing test raises.
Validate(f) ==
    CASE f.port < 1 \/ f.port > MaxPort -> "ConfigurationError"
      [] f.min_connections < 1 -> "ConfigurationError"
      [] f.max_connections < f.min_connections -> "ConfigurationError"
      [] LessEqZero(f.connection_timeout) -> "ConfigurationError"
      [] f.sslmode \notin ValidSslModes -> "ConfigurationError"
      [] OTHER -> "none"

PostInit(t) ==
    /\ pc[t] = "post_init"
    /\ IF Validate(fr[t].fields) = "none"
       THEN Return(t, fr[t])
       ELSE Raise(t, Validate(fr[t].fields))
    /\ UNCHANGED <<pid, ops, poolVars, dbVars, histVars, sqlVars>>

(***************************************************************************)
(* os.fork() in user code: the model goes on in the child.                 *)
(***************************************************************************)
Fork(t, bound) ==
    /\ MayStart(t, bound)
    /\ ops' = ops + 1
    /\ pid' = pid + 1
    /\ pc' = [u \in Threads |-> "idle"]
    /\ fr' = [u \in Threads |-> IF u = t THEN fr[t] ELSE Blank]
    /\ lock' = IF lock = "free" THEN "free" ELSE "orphan"
    /\ UNCHANGED <<pool_pid, cls_instance, cls_initialized, mgr, pools,
                   dbVars, histVars, sqlVars>>

(***************************************************************************)
(* The Database facade.                                                    *)
(***************************************************************************)

\* Database(config), lines 51-55.
DbNew(t) ==
    /\ pc[t] = "db_new"
    /\ dbs' = Append(dbs, [config |-> fr[t].cfg, pool |-> NoneId])
    /\ Return(t, [fr[t] EXCEPT !.ret = Len(dbs) + 1])
    /\ UNCHANGED <<pid, ops, poolVars, db_instance, histVars, sqlVars>>

InitReturnsExisting_Never == FALSE

\* init(), line 132.
InitReturnsExisting == db_instance # NoneId

\* init(), lines 132-134.
DiCheck(t) ==
    /\ pc[t] = "di_chk"
    /\ IF InitReturnsExisting
       THEN Return(t, [fr[t] EXCEPT !.ret = db_instance])
       ELSE Go(t, "di_setup", fr[t])
    /\ UNCHANGED <<pid, ops, poolVars, dbVars, histVars, sqlVars>>

\* How lines 146-156 can end: ensure_database() raises before the schema is
\* reached (setup_fail), init_schema() raises (schema_fail), or all is well.
SetupOutcomes(auto, schema) ==
    {"ok"} \cup (IF auto THEN {"setup_fail"} ELSE {})
           \cup (IF schema THEN {"schema_fail"} ELSE {})

SetupSteps_SchemaRegardless(auto, schema, o) ==
    (IF auto /\ o # "setup_fail" THEN <<"provision">> ELSE <<>>)
        \o (IF schema /\ o # "schema_fail" THEN <<"schema">> ELSE <<>>)

\* The steps of lines 146-156 that completed, in the order the code runs
\* them: ensure_database provisions (setup.py 271-279) and only then applies
\* the schema (282-283); without auto_setup init_schema alone runs (line 156).
SetupSteps(auto, schema, o) ==
    (IF auto /\ o # "setup_fail" THEN <<"provision">> ELSE <<>>)
        \o (IF schema /\ o = "ok" THEN <<"schema">> ELSE <<>>)

\* init(), lines 146-156: ensure_database (setup.py 270-285) provisions and
\* then applies the schema; without auto_setup only the schema is applied.
\* Then line 158 builds the facade and line 159 enters connect().
DiSetup(t, outcomes) ==
    /\ pc[t] = "di_setup"
    /\ \E o \in outcomes \cap SetupOutcomes(fr[t].auto, fr[t].schema) :
        LET done == SetupSteps(fr[t].auto, fr[t].schema, o)
            ran(k) == Cardinality({i \in 1..Len(done) : done[i] = k})
        IN
        /\ provDone' = provDone + ran("provision")
        /\ schemaDone' = schemaDone + ran("schema")
        /\ CASE o = "setup_fail" -> Raise(t, "DatabaseConnectionError")
             [] o = "schema_fail" -> Raise(t, "SchemaError")
             [] OTHER -> Go(t, "new", [fr[t] EXCEPT !.log = done])
    /\ UNCHANGED <<pid, ops, poolVars, dbVars, conns, hist_init, sqlVars>>

\* init(), lines 159-165: connect() stored the manager in the new facade;
\* the facade becomes the singleton and is returned.
DiStore(t) ==
    /\ pc[t] = "di_store"
    /\ dbs' = Append(dbs, [config |-> fr[t].cfg, pool |-> fr[t].ret])
    /\ db_instance' = Len(dbs) + 1
    /\ hist_init' = Len(dbs) + 1
    /\ Return(t, [fr[t] EXCEPT !.ret = Len(dbs) + 1])
    /\ UNCHANGED <<pid, ops, poolVars, conns, provDone, schemaDone, sqlVars>>

NotInitialized_Never == FALSE

\* get_instance(), line 78.
NotInitialized == db_instance = NoneId

\* get_instance(), lines 78-82.
GetInstance(t) ==
    /\ pc[t] = "gi"
    /\ IF NotInitialized
       THEN Raise(t, "DatabaseConnectionError")
       ELSE Return(t, [fr[t] EXCEPT !.ret = db_instance])
    /\ UNCHANGED <<pid, ops, poolVars, dbVars, histVars, sqlVars>>

\* reset_instance(), line 173.
RsCheck(t) ==
    /\ pc[t] = "rs_chk"
    /\ IF db_instance = NoneId
       THEN Return(t, fr[t]) /\ hist_init' = NoneId
       ELSE Go(t, "rs_disc", fr[t]) /\ UNCHANGED hist_init
    /\ UNCHANGED <<pid, ops, poolVars, dbVars, conns, provDone,
                   schemaDone, sqlVars>>

\* reset_instance(), line 175: cls._instance is read again and disconnect()
\* entered (line 193); whatever it raises is suppressed.
RsDisconnect(t) ==
    /\ pc[t] = "rs_disc"
    /\ IF db_instance = NoneId
       THEN Go(t, "rs_clear", fr[t])
       ELSE IF dbs[db_instance].pool = NoneId
            THEN Go(t, "rs_clear", [fr[t] EXCEPT !.db = db_instance])
            ELSE Go(t, "dd_close", [fr[t] EXCEPT !.db = db_instance])
    /\ UNCHANGED <<pid, ops, poolVars, dbVars, histVars, sqlVars>>

\* reset_instance(), line 176.
RsClear(t) ==
    /\ pc[t] = "rs_clear"
    /\ db_instance' = NoneId
    /\ hist_init' = NoneId
    /\ Return(t, fr[t])
    /\ UNCHANGED <<pid, ops, poolVars, dbs, conns, provDone,
                   schemaDone, sqlVars>>

\* connect(), line 184, entering get_pool(self._config) at line 185.
DcCheck(t) ==
    LET d == fr[t].db IN
    /\ pc[t] = "dc_chk"
    /\ IF dbs[d].pool # NoneId
       THEN Return(t, fr[t])
       ELSE Go(t, "new", [fr[t] EXCEPT !.cfg = dbs[d].config])
    /\ UNCHANGED <<pid, ops, poolVars, dbVars, histVars, sqlVars>>

\* connect(), line 185: the assignment of get_pool's result to self._pool.
DcSet(t) ==
    /\ pc[t] = "dc_set"
    /\ dbs' = [dbs EXCEPT ![fr[t].db].pool = fr[t].ret]
    /\ IF fr[t].op = "connect"
       THEN Return(t, fr[t])
       ELSE Go(t, "q_use", fr[t])
    /\ UNCHANGED <<pid, ops, poolVars, db_instance, histVars, sqlVars>>

\* disconnect(), line 193.
DdCheck(t) ==
    /\ pc[t] = "dd_chk"
    /\ IF dbs[fr[t].db].pool = NoneId
       THEN Return(t, fr[t])
       ELSE Go(t, "dd_close", fr[t])
    /\ UNCHANGED <<pid, ops, poolVars, dbVars, histVars, sqlVars>>

\* disconnect(), line 194: self._pool is read again; close() needs the lock.
DdClose(t) ==
    LET m == dbs[fr[t].db].pool IN
    /\ pc[t] = "dd_close"
    /\ IF m = NoneId
       THEN /\ IF fr[t].op = "disconnect"
               THEN Raise(t, "AttributeError")
               ELSE Go(t, "rs_clear", fr[t])
            /\ UNCHANGED <<mgr, pools>>
       ELSE /\ lock = "free"
            /\ mgr' = MgrAfterClose(m)
            /\ pools' = PoolsAfterClose(m)
            /\ Go(t, "dd_reset", fr[t])
    /\ UNCHANGED <<pid, ops, pool_pid, cls_instance, cls_initialized, lock,
                   dbVars, histVars, sqlVars>>

\* disconnect(), line 195.
DdReset(t) ==
    /\ pc[t] = "dd_reset"
    /\ DoReset
    /\ Go(t, "dd_clear", fr[t])
    /\ UNCHANGED <<pid, ops, dbVars, histVars, sqlVars>>

DbsAfterDisconnect_Kept(d) == dbs

\* disconnect(), line 196: self._pool = None.
DbsAfterDisconnect(d) == [dbs EXCEPT ![d].pool = NoneId]

\* disconnect(), line 196.
DdClear(t) ==
    /\ pc[t] = "dd_clear"
    /\ dbs' = DbsAfterDisconnect(fr[t].db)
    /\ IF fr[t].op = "disconnect"
       THEN Return(t, fr[t])
       ELSE Go(t, "rs_clear", fr[t])
    /\ UNCHANGED <<pid, ops, poolVars, db_instance, histVars, sqlVars>>

\* Every facade operation that needs a connection (connection, transaction,
\* cursor, execute, execute_many, fetch_one, fetch_all) starts with
\* `self.pool.connection()`.  The pool property, lines 202-203, and
\* connect()'s own check, line 184.
QPool(t) ==
    LET d == fr[t].db IN
    /\ pc[t] = "q_pool"
    /\ IF dbs[d].pool = NoneId
       THEN Go(t, "new", [fr[t] EXCEPT !.cfg = dbs[d].config])
       ELSE Go(t, "q_use", fr[t])
    /\ UNCHANGED <<pid, ops, poolVars, dbVars, histVars, sqlVars>>

\* The pool property, line 204, then the manager's connection(), line 214.
QUse(t) ==
    LET m == dbs[fr[t].db].pool IN
    /\ pc[t] = "q_use"
    /\ IF m = NoneId
       THEN Raise(t, "AttributeError") /\ UNCHANGED conns
       ELSE Checkout(t, m, "PoolTimeout")
    /\ UNCHANGED <<pid, ops, poolVars, dbVars, provDone, schemaDone,
                   hist_init, sqlVars>>

(***************************************************************************)
(* The data path: the facade's scoped blocks and query helpers             *)
(* (database.py), BaseRepository (repositories/base.py) and                *)
(* MigrationManager.run_migration (schema.py), run against one table and   *)
(* the migrations table of one server.                                     *)
(*                                                                         *)
(* A call is a script of SQL statements run on a pooled connection.  The   *)
(* driver opens a transaction at the first statement; its writes stay in   *)
(* the connection (pend, pmarks, psql) until a commit applies them to the  *)
(* server or a rollback drops them.  Leaving the pool's connection()       *)
(* context commits when the block ended normally and rolls back when it    *)
(* raised, then returns the connection to the pool.                        *)
(***************************************************************************)
Entities == [id : 0..MaxId, name : Names \cup {NoName}]

\* _entity_to_row as the repositories of tests/ and examples/ write it: a
\* field that is None gives no key.  cols are the row's keys.
EntityToRow(e) ==
    [cols |-> (IF e.id # 0 THEN {"id"} ELSE {})
                \cup (IF e.name # NoName THEN {"name"} ELSE {}),
     id |-> e.id, name |-> e.name]

\* _row_to_entity: row.get(column) for every field.
RowToEntity(row) ==
    [id |-> IF "id" \in row.cols THEN row.id ELSE 0,
     name |-> IF "name" \in row.cols THEN row.name ELSE NoName]

\* A row as RETURNING * and SELECT * give it: every column, NULLs included.
ServerRow(i, n) == [cols |-> {"id", "name"}, id |-> i, name |-> n]

Stmt(k, cols, i, n) ==
    [k |-> k, cols |-> cols, id |-> i, name |-> n, where |-> <<>>,
     params |-> <<>>, limit |-> 0]

\* INSERT INTO t (columns) VALUES (values) RETURNING *
\* The values are the row's own, in its order, under the column names given:
\* with as many values as names the server takes an integer for the name
\* column (stored as its text) and rejects a name for the id column; with a
\* different number the statement is malformed.
InsertStmt(row, columns) ==
    CASE columns = row.cols -> Stmt("insert", columns, row.id, row.name)
      [] columns = {"name"} /\ row.cols = {"id"} ->
            Stmt("insert", columns, 0, ToString(row.id))
      [] OTHER -> Stmt("malformed", columns, row.id, row.name)

\* row.pop(primary_key): the SET clause names the remaining columns.
SetColumns(row) == row.cols \ {"id"}

\* UPDATE t SET columns WHERE id = %s RETURNING *
UpdateStmt(row) == Stmt("update", SetColumns(row), row.id, row.name)

SelectStmt(i) == Stmt("select", {}, i, NoName)
DeleteStmt(i) == Stmt("delete", {}, i, NoName)
AppliedStmt(m) == Stmt("is_applied", {}, 0, m)
SqlStmt(m) == Stmt("sql", {}, 0, m)
MarkStmt(m) == Stmt("mark", {}, 0, m)

\* A condition mapping is a sequence of column / value pairs, in the
\* mapping's order; the values are written as Python writes them.
None == "None"

IsNull_Falsy(value) == value \in {None, "0", "False", ""}

\* `if value is None`
IsNull(value) == value = None

\* The loop over conditions.items() of find_by, count and delete_by: a
\* predicate per condition, `col IS NULL` or `col = %s`, and the values bound.
Compile(conds) ==
    LET bound(p) == ~IsNull(p.val)
        kept == SelectSeq(conds, bound)
    IN [where |-> [k \in 1..Len(conds) |->
                     [col |-> conds[k].col, null |-> IsNull(conds[k].val)]],
        params |-> [k \in 1..Len(kept) |-> kept[k].val]]

\* SELECT * / SELECT COUNT(*) / DELETE FROM t WHERE predicates joined by AND;
\* without predicates there is no WHERE clause.
CondStmt(k, q) == [Stmt(k, {}, 0, NoName) EXCEPT !.where = q.where,
                                                 !.params = q.params]

EmptyConditions_Never(conds) == FALSE

\* `if not conditions`
EmptyConditions(conds) == conds = <<>>

BatchStmts_FirstOnly(rows) == <<InsertStmt(rows[1], rows[1].cols)>>

\* create_many: one INSERT per row, all with the columns of rows[0].
BatchStmts(rows) ==
    [i \in 1..Len(rows) |-> InsertStmt(rows[i], rows[1].cols)]

MigrationStmts_SqlOnly(m) == <<SqlStmt(m)>>

\* run_migration's transaction: the SQL, then the bookkeeping insert.
MigrationStmts(m) == <<SqlStmt(m), MarkStmt(m)>>

\* The facade function a call goes through decides who commits:
\*   "connection"  connection(), fetch_one, fetch_all: nobody but the driver
\*   "cursor"      cursor(), execute, execute_many: commit after the block
\*   "transaction" transaction(): commit in the try, rollback in the handler
ShapeOf(op) ==
    CASE op \in {"create", "update", "find_by_id", "exists", "connection",
                 "fetch_one", "fetch_all", "fetch_value", "table_exists",
                 "find_all", "find_by", "find_one_by", "count"} -> "connection"
      [] op \in {"delete", "delete_by", "cursor", "execute",
                 "execute_many"} -> "cursor"
      [] op \in {"create_many", "transaction", "run_migration"} -> "transaction"

\* The statements of a call; for the scoped blocks, those the caller's block
\* runs.
StmtsOf(c) ==
    LET rows == [i \in 1..Len(c.arg) |-> EntityToRow(c.arg[i])] IN
    CASE c.op = "create" -> <<InsertStmt(rows[1], rows[1].cols)>>
      [] c.op = "create_many" -> BatchStmts(rows)
      [] c.op = "update" -> <<UpdateStmt(rows[1])>>
      [] c.op = "delete" -> <<DeleteStmt(c.id)>>
      [] c.op \in {"find_by_id", "exists", "fetch_one", "fetch_all",
                   "fetch_value", "table_exists"} ->
            <<SelectStmt(c.id)>>
      [] c.op = "run_migration" -> MigrationStmts(c.mname)
      [] c.op \in {"find_all", "find_by", "find_one_by"} ->
            <<[CondStmt("select_where", IF EmptyConditions(c.conds)
                                        THEN Compile(<<>>) ELSE Compile(c.conds))
                  EXCEPT !.limit = IF c.op = "find_one_by" THEN 1 ELSE 0]>>
      [] c.op = "count" ->
            <<CondStmt("count", IF EmptyConditions(c.conds)
                                THEN Compile(<<>>) ELSE Compile(c.conds))>>
      [] c.op = "delete_by" -> <<CondStmt("delete_where", Compile(c.conds))>>
      [] OTHER -> [i \in 1..Len(rows) |-> InsertStmt(rows[i], rows[i].cols)]

NeedOf(es) == Cardinality({i \in 1..Len(es) : es[i].id = 0})

\* Ids of the sequence that running calls may still draw.
Reserved ==
    LET sum[T \in SUBSET Threads] ==
            IF T = {} THEN 0
            ELSE LET u == CHOOSE u \in T : TRUE IN cx[u].need + sum[T \ {u}]
    IN sum[Threads]

\* What user code keeps of a finished call.
Kept(c) ==
    [BlankCx EXCEPT !.op = c.op, !.id = c.id, !.mname = c.mname,
                    !.result = c.result, !.flag = c.flag, !.num = c.num,
                    !.cause = c.cause, !.conv = c.conv, !.obj = c.obj,
                    !.again = c.again]

StartSql(t, calls, bound) ==
    /\ MayStart(t, bound)
    /\ \E c \in calls :
        /\ serial + Reserved + c.need <= MaxId + 1
        /\ cx' = [cx EXCEPT ![t] = c]
        /\ Go(t, "sq_begin", [Blank EXCEPT !.op = c.op])
    /\ ops' = ops + 1
    /\ UNCHANGED <<pid, poolVars, dbVars, histVars, tbl, serial, migs,
                   sqlCount, out, made, gone, mlog>>

\* update(entity) with the caller's entity object, a mapping.
ObjCall(conv, obj, again) ==
    [BlankCx EXCEPT !.op = "update", !.arg = <<RowToEntity(obj)>>,
                    !.conv = conv, !.obj = obj, !.again = again]

\* The caller passes the entity object of its last update() again.
Again(t, bound) ==
    /\ MayStart(t, bound)
    /\ cx[t].op = "update" /\ cx[t].obj.cols # {} /\ ~cx[t].again
    /\ cx' = [cx EXCEPT ![t] = ObjCall(cx[t].conv, cx[t].obj, TRUE)]
    /\ Go(t, "sq_begin", [Blank EXCEPT !.op = "update"])
    /\ ops' = ops + 1
    /\ UNCHANGED <<pid, poolVars, dbVars, histVars, tbl, serial, migs,
                   sqlCount, out, made, gone, mlog>>

\* The call ends: the result or the error goes to the caller.
Finish(t, c, e) ==
    /\ cx' = [cx EXCEPT ![t] = Kept(c)]
    /\ IF e = "none" THEN Return(t, fr[t]) ELSE Raise(t, e)

\* update() after `row = self._entity_to_row(entity)` and
\* `pk_value = row.pop(self.primary_key)`: the row it got and, when the
\* conversion returned the entity itself, the caller's entity, which is the
\* same object.
Popped(c) ==
    IF c.op # "update" THEN c
    ELSE [c EXCEPT !.row = [EntityToRow(c.arg[1]) EXCEPT !.cols = @ \ {"id"}],
                   !.obj = IF c.conv = "identity"
                           THEN [c.obj EXCEPT !.cols = @ \ {"id"}]
                           ELSE c.obj]

\* The statements before the connection is asked for.
Begin(t) ==
    LET c == cx[t] IN
    /\ pc[t] = "sq_begin"
    /\ CASE c.op = "create_many" /\ c.arg = <<>> -> Finish(t, c, "none")
         [] c.op = "update" /\ "id" \notin EntityToRow(c.arg[1]).cols ->
                Finish(t, c, "RepositoryError")
         [] c.op = "delete_by" /\ EmptyConditions(c.conds) ->
                Finish(t, c, "RepositoryError")
         [] c.op = "run_migration" /\ c.skip ->
                /\ cx' = [cx EXCEPT ![t].shape = "connection", ![t].part = 1,
                                    ![t].stmts = <<AppliedStmt(c.mname)>>]
                /\ Go(t, "sq_enter", fr[t])
         [] OTHER ->
                /\ cx' = [cx EXCEPT ![t] =
                            [Popped(c) EXCEPT !.shape = ShapeOf(c.op),
                                              !.part = 2,
                                              !.stmts = StmtsOf(c)]]
                /\ Go(t, "sq_enter", fr[t])
    /\ UNCHANGED <<pid, ops, poolVars, dbVars, histVars, tbl, serial, migs,
                   sqlCount, out, made, gone, mlog>>

\* self.pool.connection(): a connection is checked out, or the pool raises.
Enter(t, faults) ==
    /\ pc[t] = "sq_enter"
    /\ dbs[db_instance].pool # NoneId
    /\ \E o \in {"ok"} \cup (faults \cap {"no_conn"}) :
        IF o = "ok"
        THEN /\ cx' = [cx EXCEPT ![t].held = TRUE]
             /\ out' = out + 1
             /\ Go(t, IF cx[t].stmts = <<>> THEN "sq_end" ELSE "sq_stmt", fr[t])
        ELSE /\ cx' = [cx EXCEPT ![t].exc = "PoolTimeout", ![t].need = 0]
             /\ out' = out
             /\ Go(t, "sq_done", fr[t])
    /\ UNCHANGED <<pid, ops, poolVars, dbVars, histVars, tbl, serial, migs,
                   sqlCount, made, gone, mlog>>

\* Where an exception raised inside the scoped block goes: to transaction()'s
\* handler when it is an Exception, past it otherwise.
AfterRaise_NoHandler(shape, exc) == "sq_exit"

AfterRaise(shape, exc) ==
    IF shape = "transaction" /\ exc # "BaseException"
    THEN "sq_rollback" ELSE "sq_exit"

\* The row as the thread's transaction sees it.
View(t, i) == IF cx[t].pend[i] = Untouched THEN tbl[i] ELSE cx[t].pend[i]

\* Another transaction has written the row and not ended: a writer waits.
Locked(t, i) == \E u \in Threads \ {t} : cx[u].pend[i] # Untouched

MarkConflict_Never(c, s) == FALSE

\* name VARCHAR(255) NOT NULL UNIQUE: the name is recorded already, or by
\* this transaction.
MarkConflict(c, s) == s.name \in migs \cup c.pmarks

WhereKinds == {"select_where", "count", "delete_where"}

\* The %s placeholders of a statement's WHERE clause.
Placeholders(s) == {k \in 1..Len(s.where) : ~s.where[k].null}

\* The parameter bound to the placeholder of predicate k.
ParamAt(s, k) == s.params[Cardinality({j \in Placeholders(s) : j <= k})]

TypeOf(value) ==
    CASE value = "False" -> "bool"
      [] value \in {ToString(i) : i \in 0..(MaxId + 1)} -> "int"
      [] OTHER -> "str"

\* The rows the thread's transaction sees that satisfy every predicate.
Matching(t, s) ==
    {i \in Ids :
        /\ View(t, i) # Absent
        /\ \A k \in 1..Len(s.where) :
              LET p == s.where[k] IN
              CASE p.null -> p.col = "name" /\ View(t, i) = NoName
                [] p.col = "id" -> ParamAt(s, k) = ToString(i)
                [] OTHER -> View(t, i) # NoName /\ ParamAt(s, k) = View(t, i)}

\* The rows of a set of ids, as the server returns them.
RowsOf(t, S, limit) ==
    LET f[n \in 0..MaxId] ==
            IF n = 0 THEN <<>>
            ELSE IF n \in S /\ (limit = 0 \/ Len(f[n - 1]) < limit)
                 THEN Append(f[n - 1], ServerRow(n, View(t, n)))
                 ELSE f[n - 1]
    IN f[MaxId]

\* cursor.execute / conn.execute of the next statement, with the server's
\* answer.  A failure ends the block with the exception.
Execute(t, faults) ==
    LET c == cx[t]
        s == Head(c.stmts)
        i == IF s.k = "insert" /\ "id" \notin s.cols THEN serial ELSE s.id
        n == IF "name" \in s.cols THEN s.name ELSE NoName
        drawn == IF s.k = "insert" /\ "id" \notin s.cols THEN 1 ELSE 0
        err == CASE s.k = "malformed" -> "ProgrammingError"
                 [] s.k \in {"insert", "update"} /\ s.cols = {} -> "SyntaxError"
                 [] s.k = "insert" /\ View(t, i) # Absent -> "UniqueViolation"
                 [] s.k = "mark" /\ MarkConflict(c, s) -> "UniqueViolation"
                 [] s.k \in WhereKinds
                    /\ Len(s.params) # Cardinality(Placeholders(s)) ->
                        "ProgrammingError"
                 [] s.k \in WhereKinds
                    /\ \E k \in Placeholders(s) :
                          TypeOf(ParamAt(s, k))
                            # (IF s.where[k].col = "id" THEN "int" ELSE "str") ->
                        "UndefinedFunction"
                 [] OTHER -> "none"
        matched == IF s.k \in WhereKinds /\ err = "none"
                   THEN Matching(t, s) ELSE {}
        hit == s.k \in {"select", "update", "delete"} /\ View(t, i) # Absent
        pend1 == CASE s.k = "insert" -> [c.pend EXCEPT ![i] = n]
                   [] s.k = "update" /\ hit ->
                        [c.pend EXCEPT ![i] = IF "name" \in s.cols
                                              THEN s.name ELSE View(t, i)]
                   [] s.k = "delete" /\ hit -> [c.pend EXCEPT ![i] = Absent]
                   [] s.k = "delete_where" ->
                        [j \in DOMAIN c.pend |->
                            IF j \in matched THEN Absent ELSE c.pend[j]]
                   [] OTHER -> c.pend
        res1 == CASE s.k = "insert" -> Append(c.res, ServerRow(i, n))
                  [] s.k = "update" /\ hit -> <<ServerRow(i, pend1[i])>>
                  [] s.k = "select" /\ hit -> <<ServerRow(i, View(t, i))>>
                  [] s.k = "is_applied" /\ s.name \in migs ->
                        <<ServerRow(0, s.name)>>
                  [] s.k \in {"sql", "mark"} -> c.res
                  [] s.k = "select_where" -> RowsOf(t, matched, s.limit)
                  [] OTHER -> <<>>
        ran == [c EXCEPT !.stmts = Tail(@), !.issued = @ + 1,
                         !.intrans = TRUE, !.need = @ - drawn]
        raised(e) == [ran EXCEPT !.exc = e, !.body = e, !.stmts = <<>>,
                                 !.need = 0]
    IN
    /\ pc[t] = "sq_stmt"
    /\ s.k \in {"insert", "update", "delete"} /\ i \in Ids => ~Locked(t, i)
    /\ s.k = "delete_where" => \A j \in matched : ~Locked(t, j)
    /\ s.k = "mark" => \A u \in Threads \ {t} : s.name \notin cx[u].pmarks
    /\ \E o \in {"ok"} \cup (faults \cap {"stmt_fail", "convert_fail"}) :
        /\ o = "convert_fail" => c.op = "create_many" /\ err = "none"
        /\ CASE o = "stmt_fail" ->
                  /\ cx' = [cx EXCEPT ![t] =
                              [raised("OperationalError") EXCEPT
                                   !.issued = c.issued]]
                  /\ Go(t, AfterRaise(c.shape, "OperationalError"), fr[t])
                  /\ UNCHANGED <<serial, sqlCount>>
             [] o = "ok" /\ err # "none" ->
                  /\ cx' = [cx EXCEPT ![t] = raised(err)]
                  /\ Go(t, AfterRaise(c.shape, err), fr[t])
                  /\ serial' = serial + drawn
                  /\ UNCHANGED sqlCount
             [] OTHER ->
                  /\ cx' = [cx EXCEPT ![t] =
                        [(IF o = "ok" THEN ran ELSE raised("ConversionError"))
                            EXCEPT !.pend = pend1, !.res = res1,
                                   !.rowcount = IF s.k \in WhereKinds
                                                THEN Cardinality(matched)
                                                ELSE IF hit THEN 1 ELSE 0,
                                   !.pmarks = IF s.k = "mark"
                                              THEN @ \cup {s.name} ELSE @,
                                   !.psql = IF s.k = "sql"
                                            THEN @ \cup {s.name} ELSE @]]
                  /\ Go(t, IF o # "ok" THEN AfterRaise(c.shape, "ConversionError")
                           ELSE IF Tail(c.stmts) = <<>> THEN "sq_end"
                           ELSE "sq_stmt", fr[t])
                  /\ serial' = serial + drawn
                  /\ sqlCount' = IF s.k = "sql"
                                 THEN [sqlCount EXCEPT ![s.name].run = @ + 1]
                                 ELSE sqlCount
    /\ UNCHANGED <<pid, ops, poolVars, dbVars, histVars, tbl, migs, out,
                   made, gone, mlog>>

\* The scoped block ends: it falls off its end, returns early, or raises.
\* The library's own blocks fall off their end.
BlockEnd(t) ==
    LET c == cx[t]
        e == IF c.blk = "exception" THEN "ValueError" ELSE "BaseException"
    IN
    /\ pc[t] = "sq_end"
    /\ IF c.blk \in {"ok", "return"}
       THEN /\ cx' = [cx EXCEPT ![t].body = "ok"]
            /\ Go(t, IF c.shape = "connection" THEN "sq_exit" ELSE "sq_commit",
                  fr[t])
       ELSE /\ cx' = [cx EXCEPT ![t].body = e, ![t].exc = e,
                                ![t].need = 0]
            /\ Go(t, AfterRaise(c.shape, e), fr[t])
    /\ UNCHANGED <<pid, ops, poolVars, dbVars, histVars, tbl, serial, migs,
                   sqlCount, out, made, gone, mlog>>

\* A commit applies the transaction's writes to the server.
TblAfterCommit(t) ==
    [i \in Ids |-> IF cx[t].pend[i] = Untouched THEN tbl[i] ELSE cx[t].pend[i]]

Written(t) == {i \in Ids : cx[t].pend[i] # Untouched}

Apply(t) ==
    /\ tbl' = TblAfterCommit(t)
    /\ migs' = migs \cup cx[t].pmarks
    /\ sqlCount' = [m \in MigrationNames |->
                      IF m \in cx[t].psql
                      THEN [sqlCount[m] EXCEPT !.done = @ + 1] ELSE sqlCount[m]]

\* The connection's transaction after a commit or a rollback.
Ended(c) ==
    [c EXCEPT !.intrans = FALSE, !.pend = BlankCx.pend, !.pmarks = {},
              !.psql = {}]

\* The writes of the call that its commits have made durable.
Saved(c) ==
    [rows |-> c.saved.rows \cup {i \in Ids : c.pend[i] \notin {Untouched, Absent}},
     gone |-> c.saved.gone \cup {i \in Ids : c.pend[i] = Absent},
     sql |-> c.saved.sql \cup c.psql,
     marks |-> c.saved.marks \cup c.pmarks]

\* delete(): rows_affected > 0
Deleted_Always(rowcount) == TRUE

Deleted(rowcount) == rowcount > 0

\* Entities that are no longer what the last create() of their id returned:
\* the committed transaction wrote their row.
MadeAfter(t) == {e \in made : e.id \notin Written(t)}
GoneAfter(t) == {i \in gone : cx[t].pend[i] \in {Untouched, Absent}}

\* conn.commit() in transaction(), cursor(), execute, execute_many.
Commit(t, faults) ==
    LET c == [cx[t] EXCEPT !.commits = @ + 1] IN
    /\ pc[t] = "sq_commit"
    /\ \E o \in {"ok"} \cup (faults \cap {"commit_fail"}) :
        IF o = "ok"
        THEN /\ Apply(t)
             /\ cx' = [cx EXCEPT ![t] = [Ended(c) EXCEPT !.saved = Saved(c)]]
             /\ made' = MadeAfter(t)
             /\ gone' = GoneAfter(t) \cup
                          (IF c.op = "delete" /\ Deleted(c.rowcount)
                           THEN {c.id} ELSE {})
             /\ Go(t, "sq_exit", fr[t])
        ELSE /\ cx' = [cx EXCEPT ![t] = [c EXCEPT !.exc = "CommitError",
                                                   !.need = 0]]
             /\ Go(t, AfterRaise(c.shape, "CommitError"), fr[t])
             /\ UNCHANGED <<tbl, migs, sqlCount, made, gone>>
    /\ UNCHANGED <<pid, ops, poolVars, dbVars, histVars, serial, out, mlog>>

\* conn.rollback() in transaction()'s handler; when it raises, its error
\* replaces the one being handled.
Rollback(t, faults) ==
    LET c == [cx[t] EXCEPT !.rollbacks = @ + 1] IN
    /\ pc[t] = "sq_rollback"
    /\ \E o \in {"ok"} \cup (faults \cap {"rollback_fail"}) :
        cx' = [cx EXCEPT ![t] = IF o = "ok" THEN Ended(c)
                                ELSE [c EXCEPT !.exc = "RollbackError"]]
    /\ Go(t, "sq_exit", fr[t])
    /\ UNCHANGED <<pid, ops, poolVars, dbVars, histVars, tbl, serial, migs,
                   sqlCount, out, made, gone, mlog>>

OutAfterExit_OnSuccess(exc) == IF exc = "none" THEN out - 1 ELSE out

\* The pool's connection() context returns the connection in a finally.
OutAfterExit(exc) == out - 1

ExitCommits_Never(exc) == FALSE

\* Leaving `with conn`: commit when the block did not raise.
ExitCommits(exc) == exc = "none"

\* Leaving self.pool.connection(): the driver commits or rolls back whatever
\* transaction is open, then the connection goes back to the pool.
Exit(t, faults) ==
    LET c == cx[t]
        open == c.intrans /\ ExitCommits(c.exc)
    IN
    /\ pc[t] = "sq_exit"
    /\ \E o \in {"ok"} \cup (IF open THEN faults \cap {"commit_fail"} ELSE {}) :
        LET e == IF o = "ok" THEN c.exc ELSE "CommitError"
            d == [Ended(c) EXCEPT
                    !.held = FALSE, !.need = 0, !.exc = e,
                    !.saved = IF open /\ o = "ok" THEN Saved(c) ELSE @]
        IN
        /\ cx' = [cx EXCEPT ![t] = d]
        /\ IF open /\ o = "ok"
           THEN /\ Apply(t)
                /\ gone' = GoneAfter(t)
                /\ made' = MadeAfter(t) \cup
                             (IF c.op = "create"
                              THEN {RowToEntity(c.res[1])} ELSE {})
           ELSE /\ UNCHANGED <<tbl, migs, sqlCount, gone>>
                /\ made' = made \cup
                             (IF c.op = "create" /\ e = "none"
                              THEN {RowToEntity(c.res[1])} ELSE {})
    /\ out' = OutAfterExit(c.exc)
    /\ Go(t, "sq_done", fr[t])
    /\ UNCHANGED <<pid, ops, poolVars, dbVars, histVars, serial, mlog>>

Skips_Never(c) == FALSE

\* skip_if_applied and self.is_applied(name)
Skips(c) == c.skip /\ c.res # <<>>

\* The statements after the connection is back in the pool: the facade
\* helper returns, and the repository or the migration manager converts the
\* result or wraps the error.  The operations that convert the rows of the
\* answer may have the conversion raise RepositoryError.
RepoOps ==
    {"find_by_id", "find_all", "find_by", "find_one_by", "create",
     "create_many", "update", "delete", "delete_by", "count", "exists"}

\* The operations with `except RepositoryError: raise` before
\* `except Exception`.
PassesThrough(op) == op \in {"create", "update"}

Done(t, faults) ==
    LET c0 == cx[t]
        repo == c0.op \in RepoOps
    IN
    \E o \in {"ok"} \cup (faults \cap {"convert_repo"}) :
    LET c == IF o = "ok" THEN c0 ELSE [c0 EXCEPT !.exc = "RepositoryError"]
        wraps == c.exc # "none" /\ repo
                 /\ ~(c.exc = "RepositoryError" /\ PassesThrough(c.op))
        e == CASE c.exc # "none" /\ repo -> "RepositoryError"
               [] c.exc # "none" -> c.exc
               [] c.op \in {"create", "update"} /\ c.res = <<>> ->
                    "RepositoryError"
               [] OTHER -> "none"
        entities == [k \in 1..Len(c.res) |-> RowToEntity(c.res[k])]
        r == CASE e # "none" ->
                    [c EXCEPT !.cause = IF wraps THEN c.exc ELSE "none"]
               [] c.op \in {"create", "create_many", "update", "find_by_id",
                            "find_all", "find_by", "find_one_by"} ->
                    [c EXCEPT !.result = entities]
               [] c.op \in {"count", "delete_by"} ->
                    [c EXCEPT !.num = c.rowcount]
               [] c.op = "delete" ->
                    [c EXCEPT !.flag = IF Deleted(c.rowcount)
                                       THEN "True" ELSE "False"]
               [] c.op = "exists" ->
                    [c EXCEPT !.flag = IF c.res # <<>> THEN "True" ELSE "False"]
               [] c.op = "run_migration" ->
                    [c EXCEPT !.flag = IF c.part = 1 THEN "False" ELSE "True"]
               [] OTHER -> c
    IN
    /\ pc[t] = "sq_done"
    /\ o # "ok" =>
          /\ c0.op \in {"find_by_id", "find_all", "find_by", "find_one_by",
                         "create", "update"}
          /\ c0.exc = "none"
          /\ c0.res # <<>>
    /\ IF c.op = "run_migration" /\ c.part = 1 /\ e = "none" /\ ~Skips(c)
       THEN /\ cx' = [cx EXCEPT ![t] =
                        [BlankCx EXCEPT !.op = c.op, !.mname = c.mname,
                                        !.skip = c.skip,
                                        !.issued = c.issued,
                                        !.shape = "transaction", !.part = 2,
                                        !.stmts = MigrationStmts(c.mname)]]
            /\ Go(t, "sq_enter", fr[t])
            /\ mlog' = mlog
       ELSE /\ Finish(t, r, e)
            /\ mlog' = IF c.op = "run_migration"
                       THEN Append(mlog, [name |-> c.mname, skip |-> c.skip,
                                          flag |-> IF e = "none" THEN r.flag
                                                   ELSE "raised",
                                          sql |-> c.saved.sql,
                                          marks |-> c.saved.marks])
                       ELSE mlog
    /\ UNCHANGED <<pid, ops, poolVars, dbVars, histVars, tbl, serial, migs,
                   sqlCount, out, made, gone>>

DataPath(t, faults) ==
    \/ Begin(t)
    \/ Enter(t, faults)
    \/ Execute(t, faults)
    \/ BlockEnd(t)
    \/ Commit(t, faults)
    \/ Rollback(t, faults)
    \/ Exit(t, faults)
    \/ Done(t, faults)

(***************************************************************************)
(* The specifications.                                                     *)
(***************************************************************************)
Acquisition(t, outcomes) ==
    \/ New_ForkCheck(t)
    \/ New_Check(t)
    \/ New_Create(t)
    \/ New_Return(t)
    \/ Init_Check(t)
    \/ Init_Lock(t)
    \/ CreatePool(t, outcomes)

\* The pool manager used directly.
NextPool ==
    \E t \in Threads :
        \/ Start(t, PoolCalls, MaxOps)
        \/ Fork(t, MaxOps)
        \/ Acquisition(t, CreateOutcomes)
        \/ New_ForkReset(t)
        \/ Close(t, {"ok"})
        \/ Reset(t, {"ok"})
        \/ PoolProp(t)
        \/ GetConnection(t)
        \/ MgrConnection(t)

SpecPool == Init /\ [][NextPool]_vars

\* The pool manager closed, reset and given connections back while the
\* driver's close and putconn may fail.
ReleaseCalls ==
    {[Blank EXCEPT !.op = "acquire", !.cfg = c] : c \in {"c1"}}
    \cup {[Blank EXCEPT !.op = k, !.self = m] :
            k \in {"close", "get_connection", "return_connection"},
            m \in Handles}
    \cup ResetCalls

SpecRelease ==
    /\ Init
    /\ [][\E t \in Threads :
              \/ Start(t, ReleaseCalls, MaxOps)
              \/ Acquisition(t, CreateOutcomes)
              \/ Close(t, {"ok", "close_fail"})
              \/ Reset(t, {"ok", "close_fail"})
              \/ GetConnection(t)
              \/ ReturnConnection(t, {"ok", "put_fail"})]_vars

\* DatabaseConfig constructed by one thread with field values on both sides
\* of every test, directly or through from_env.
ConfigCalls ==
    {[Blank EXCEPT !.op = "config", !.fields = f] :
        f \in [port : {0, 1, MaxPort, MaxPort + 1},
               min_connections : {0, 1, 2},
               max_connections : {0, 1, 2},
               connection_timeout : {Num(0 - 1), Num(0), Num(1), NaN},
               sslmode : ValidSslModes \cup {"", "REQUIRE"}]}

SpecConfig ==
    /\ Init
    /\ [][\E t \in {"t1"} :
              \/ Start(t, ConfigCalls, MaxOps)
              \/ PostInit(t)]_vars

\* Two Database objects constructed with the same configuration, then
\* connect(), disconnect() and queries on either, one call after the other.
SpecTwo ==
    /\ InitFacades(<<[config |-> "c1", pool |-> NoneId],
                   [config |-> "c1", pool |-> NoneId]>>)
    /\ [][\E t \in Threads :
              \/ (\A u \in Threads : pc[u] = "idle") /\ Start(t, DbCalls, MaxOps)
              \/ Acquisition(t, {"ok"})
              \/ DcCheck(t)
              \/ DcSet(t)
              \/ DdCheck(t)
              \/ DdClose(t)
              \/ DdReset(t)
              \/ DdClear(t)
              \/ QPool(t)
              \/ QUse(t)]_vars

\* Concurrent ConnectionPoolSingleton(config) calls and nothing else: no
\* reset(), no close(), no fork.
NextAcquire ==
    \E t \in Threads :
        \/ Start(t, AcquireCalls, MaxOps)
        \/ Acquisition(t, CreateOutcomes)

SpecAcquire == Init /\ [][NextAcquire]_vars

\* The pool manager used through the Database facade.
Next ==
    \E t \in Threads :
        \/ Start(t, FacadeCalls, MaxDbOps)
        \/ Fork(t, MaxDbOps)
        \/ Acquisition(t, CreateOutcomes)
        \/ New_ForkReset(t)
        \/ DbNew(t)
        \/ DiCheck(t)
        \/ DiSetup(t, {"ok", "setup_fail", "schema_fail"})
        \/ DiStore(t)
        \/ GetInstance(t)
        \/ RsCheck(t)
        \/ RsDisconnect(t)
        \/ RsClear(t)
        \/ DcCheck(t)
        \/ DcSet(t)
        \/ DdCheck(t)
        \/ DdClose(t)
        \/ DdReset(t)
        \/ DdClear(t)
        \/ QPool(t)
        \/ QUse(t)

Spec == Init /\ [][Next]_vars

\* Concurrent Database.init() calls and nothing else, in an environment where
\* provisioning, the schema and the pool creation all succeed.
NextInit ==
    \E t \in Threads :
        \/ Start(t, DbInitCalls, MaxDbOps)
        \/ DiCheck(t)
        \/ DiSetup(t, {"ok"})
        \/ Acquisition(t, {"ok"})
        \/ DiStore(t)

SpecInit == Init /\ [][NextInit]_vars

(***************************************************************************)
(* The data path starts where Database.init(config) has returned a         *)
(* connected facade and the tables exist and are empty.                    *)
(***************************************************************************)
InitRows(rows) ==
    /\ pid = 1
    /\ pool_pid = 1
    /\ cls_instance = 1
    /\ cls_initialized = FALSE
    /\ lock = "free"
    /\ mgr = <<[pid |-> 1, attrs |-> TRUE, config |-> "c1", pool |-> 1,
                closed |-> FALSE, init_attr |-> TRUE]>>
    /\ pools = <<[pid |-> 1, closes |-> 0]>>
    /\ db_instance = 1
    /\ dbs = <<[config |-> "c1", pool |-> 1]>>
    /\ pc = [t \in Threads |-> "idle"]
    /\ fr = [t \in Threads |-> Blank]
    /\ ops = 0
    /\ conns = {}
    /\ provDone = 0
    /\ schemaDone = 0
    /\ hist_init = 1
    /\ tbl = rows
    /\ serial = 1
    /\ migs = {}
    /\ sqlCount = [m \in MigrationNames |-> [run |-> 0, done |-> 0]]
    /\ out = 0
    /\ cx = [t \in Threads |-> BlankCx]
    /\ made = {}
    /\ gone = {}
    /\ mlog = <<>>

\* The facade connected, the table empty.
InitData == InitRows([i \in Ids |-> Absent])

\* What the driver and the server may answer besides success.
Faults == {"no_conn", "stmt_fail", "convert_fail", "commit_fail",
           "rollback_fail"}

Call(op, arg, i) ==
    [BlankCx EXCEPT !.op = op, !.arg = arg, !.id = i, !.need = NeedOf(arg)]

\* The facade used directly: the scoped blocks with the statements the
\* caller's block runs and the way it ends, and the query helpers.
BlockCalls ==
    {[Call(op, arg, 0) EXCEPT !.blk = b] :
        op \in {"connection", "transaction", "cursor"},
        arg \in {<<>>, <<[id |-> 0, name |-> "a"]>>},
        b \in {"ok", "return", "exception", "base"}}

HelperCalls ==
    {Call("execute", <<[id |-> 0, name |-> "a"]>>, 0),
     Call("execute_many", <<[id |-> 1, name |-> "a"], [id |-> 1, name |-> "b"]>>, 0),
     Call("fetch_one", <<>>, 1), Call("fetch_all", <<>>, 1)}

NextTx ==
    \E t \in Threads :
        \/ StartSql(t, BlockCalls \cup HelperCalls, MaxSqlOps)
        \/ DataPath(t, Faults)

SpecTx == InitData /\ [][NextTx]_vars

\* The repository's operations.  Entities without id take it from the
\* sequence; one without any field converts to a row without columns, one
\* with the id alone to a row holding only the key.  The batches: empty, two
\* rows alike, a second row with more keys than the first (more values than
\* placeholders), and two rows with the same id.
RepoCalls ==
    {Call("create", <<e>>, 0) :
        e \in {[id |-> 0, name |-> "a"], [id |-> 1, name |-> "a"],
               [id |-> 0, name |-> NoName]}}
    \cup {Call("create_many", es, 0) :
        es \in {<<>>,
                <<[id |-> 0, name |-> "a"], [id |-> 0, name |-> "b"]>>,
                <<[id |-> 0, name |-> "a"], [id |-> 1, name |-> "b"]>>,
                <<[id |-> 1, name |-> "a"], [id |-> 1, name |-> "b"]>>}}
    \cup {Call("update", <<e>>, 0) :
        e \in {[id |-> 1, name |-> "b"], [id |-> 0, name |-> "b"],
               [id |-> 1, name |-> NoName]}}
    \cup {Call(op, <<>>, i) :
        op \in {"delete", "find_by_id", "exists"}, i \in {1}}

NextRepo ==
    \E t \in Threads :
        \/ StartSql(t, RepoCalls, MaxSqlOps)
        \/ DataPath(t, Faults)

SpecRepo == InitData /\ [][NextRepo]_vars

\* MigrationManager.run_migration, with and without skip_if_applied.
MigrCalls ==
    {[Call("run_migration", <<>>, 0) EXCEPT !.mname = m, !.skip = k] :
        m \in MigrationNames, k \in BOOLEAN}

\* A table that holds a row with a name and a row whose name is NULL, both
\* created with an id of the caller's.
InitQuery ==
    InitRows([i \in Ids |-> IF i = 1 THEN "a" ELSE IF i = 2 THEN NoName
                            ELSE Absent])

\* Calls of the finders, count and delete_by, and a create_many whose first
\* id is taken: conditions of one or two columns with None, falsy and other values.
CondCall(op, conds) == [BlankCx EXCEPT !.op = op, !.conds = conds]

Cond(col, val) == [col |-> col, val |-> val]

QueryCalls ==
    {Call("create_many", es, 0) :
        es \in {<<[id |-> 0, name |-> "a"], [id |-> 0, name |-> "b"]>>}}
    \cup {CondCall(op, conds) :
        op \in {"find_by", "count", "delete_by"},
        conds \in
        {<<>>,
         <<Cond("name", None)>>,
         <<Cond("name", "a")>>,
         <<Cond("name", "")>>,
         <<Cond("id", "0")>>,
         <<Cond("name", "False")>>,
         <<Cond("id", "1"), Cond("name", None)>>,
         <<Cond("name", None), Cond("id", "2")>>,
         <<Cond("name", "a"), Cond("id", "1")>>}}
    \cup {CondCall("find_one_by", <<Cond("name", None)>>),
          CondCall("find_all", <<>>)}

SpecQuery ==
    /\ InitQuery
    /\ [][\E t \in Threads :
              \/ StartSql(t, QueryCalls, MaxSqlOps)
              \/ DataPath(t, {"stmt_fail"})]_vars

\* Every public operation of a repository whose conversion functions may
\* raise RepositoryError themselves, and the query methods of the facade, with
\* statements that may fail.
ErrCalls ==
    {Call("create", <<e>>, 0) : e \in {[id |-> 0, name |-> "a"]}}
    \cup {Call("create_many", es, 0) :
        es \in {<<[id |-> 0, name |-> "a"], [id |-> 0, name |-> "b"]>>}}
    \cup {Call("update", <<e>>, 0) : e \in {[id |-> 1, name |-> "b"]}}
    \cup {Call(op, <<>>, 1) : op \in {"delete", "find_by_id", "exists"}}
    \cup {CondCall(op, conds) :
        op \in {"find_by", "find_one_by", "count", "delete_by"},
        conds \in {<<Cond("name", None)>>}}
    \cup {CondCall("find_all", <<>>)}
    \cup {Call("execute", <<[id |-> 0, name |-> "a"]>>, 0),
          Call("execute_many", <<[id |-> 0, name |-> "a"]>>, 0)}
    \cup {Call(op, <<>>, 1) :
        op \in {"fetch_one", "fetch_all", "fetch_value", "table_exists"}}

SpecErr ==
    /\ InitQuery
    /\ [][\E t \in Threads :
              \/ StartSql(t, ErrCalls, MaxSqlOps)
              \/ DataPath(t, {"stmt_fail", "convert_repo"})]_vars

\* update() with the same entity object twice, by repositories that copy the
\* entity into the row and by repositories that return the entity itself.
AliasCalls ==
    {ObjCall(conv, [cols |-> {"id", "name"}, id |-> 1, name |-> n], FALSE) :
        conv \in {"copy", "identity"}, n \in Names}
    \cup {Call("create_many", es, 0) :
        es \in {<<[id |-> 0, name |-> "a"], [id |-> 0, name |-> "b"]>>}}
    \cup {Call("delete", <<>>, 2)}

SpecAlias ==
    /\ InitQuery
    /\ [][\E t \in Threads :
              \/ StartSql(t, AliasCalls, MaxSqlOps)
              \/ Again(t, MaxSqlOps)
              \/ DataPath(t, {})]_vars

\* create and create_many with entities whose converted rows have the same
\* keys, and with entities whose rows have as many keys but not the same.
BatchCalls ==
    {Call("create", <<e>>, 0) : e \in {[id |-> 0, name |-> "a"]}}
    \cup {Call("create_many", es, 0) :
        es \in {<<[id |-> 0, name |-> "a"], [id |-> 0, name |-> "b"]>>,
                <<[id |-> 1, name |-> "a"], [id |-> 1, name |-> "b"]>>}}
    \cup {[Call("create_many", es, 0) EXCEPT !.need = Len(es)] :
        es \in {<<[id |-> 0, name |-> "a"], [id |-> 2, name |-> NoName]>>}}
    \cup {Call("delete", <<>>, 1)}

SpecBatch ==
    /\ InitData
    /\ [][\E t \in Threads :
              \/ StartSql(t, BatchCalls, MaxSqlOps)
              \/ DataPath(t, {"stmt_fail"})]_vars

NextMigr ==
    \E t \in Threads :
        \/ StartSql(t, MigrCalls, MaxSqlOps)
        \/ DataPath(t, Faults)

SpecMigr == InitData /\ [][NextMigr]_vars

\* Successive run_migration calls, each made after the one before has
\* returned, with a driver and a server that do not fail.
NextMigrSeq ==
    \E t \in Threads :
        \/ (\A u \in Threads : pc[u] = "idle") /\ StartSql(t, MigrCalls, MaxSqlOps)
        \/ DataPath(t, {})

SpecMigrSeq == InitData /\ [][NextMigrSeq]_vars

(***************************************************************************)
(* The claims.                                                             *)
(***************************************************************************)
AcqLabels ==
    {"new", "new_forkreset", "new_chk", "new_create", "new_ret", "init_chk",
     "init_lock", "create_pool"}

\* Thread t runs a statement of its call (a fork only wipes the other threads).
Steps(t) == pc[t] # "idle" /\ pc'[t] # pc[t] /\ pid' = pid

\* Thread t's call ends with this step.
Ends(t) == Steps(t) /\ pc'[t] = "idle"

LivePools == {p \in PoolIds : pools[p].pid = pid /\ pools[p].closes = 0}

C2_NoInheritedConnection == \A c \in conns : pools[c.pool].pid = c.pid

\* C3: an acquisition that found an initialized manager of this process, and
\* runs while that manager stays the singleton, constructs no pool, changes no
\* manager (its configuration included) and returns that manager.
C3_FirstWriterWins ==
    [][\A t \in Threads :
        (/\ Steps(t) /\ pc[t] \in AcqLabels
         /\ fr[t].m0 # NoneId /\ cls_instance = fr[t].m0) =>
            /\ cls_instance' = cls_instance
            /\ mgr' = mgr
            /\ pools' = pools
            /\ Ends(t) => (fr'[t].ret = fr[t].m0 /\ fr'[t].err = "none")]_vars

C3_Witness ==
    \E t \in Threads :
        /\ pc[t] = "idle" /\ fr[t].op = "acquire" /\ fr[t].err = "none"
        /\ fr[t].ret # NoneId /\ fr[t].ret = cls_instance
        /\ fr[t].cfg = "c2"
        /\ mgr[fr[t].ret].config = "c1"
        /\ mgr[fr[t].ret].pool # NoneId
        /\ Len(pools) = 1

\* C4: close() invokes the pool's close once, on the first call only; a later
\* close() changes nothing; once closed, the pool property and
\* get_connection() raise DatabaseConnectionError.
C4_CloseOnce ==
    /\ [](/\ \A p \in PoolIds : pools[p].closes <= 1
          /\ \A m \in MgrIds : mgr[m].closed => mgr[m].pool = NoneId)
    /\ [][\A t \in Threads :
            LET m == fr[t].self IN
            /\ (Steps(t) /\ pc[t] = "close") =>
                IF mgr[m].pool # NoneId
                THEN /\ pools'[mgr[m].pool].closes = pools[mgr[m].pool].closes + 1
                     /\ mgr'[m].closed
                     /\ mgr'[m].pool = NoneId
                ELSE UNCHANGED <<poolVars, conns>>
            /\ (Steps(t) /\ pc[t] \in {"pool_prop", "get_conn"} /\ mgr[m].closed) =>
                /\ fr'[t].err = "DatabaseConnectionError"
                /\ UNCHANGED <<poolVars, conns>>]_vars

C4_Witness ==
    /\ Len(mgr) = 1 /\ Len(pools) = 1
    /\ mgr[1].closed /\ pools[1].closes = 1
    /\ \E t, u \in Threads :
        /\ t # u
        /\ pc[t] = "idle" /\ fr[t].op = "close"
        /\ pc[u] = "idle" /\ fr[u].op \in {"close", "pool_prop", "get_connection"}
        /\ fr[u].op # "close" => fr[u].err = "DatabaseConnectionError"

\* C5: at most one pool created in the process is constructed and not closed.
C5_AtMostOneLivePool == Cardinality(LivePools) <= 1

\* C6: with concurrent acquisitions only, there is one manager, one pool that
\* stays, and every call that returned did so with that manager, its pool
\* initialized.
C6_CreatedOnce ==
    /\ Len(mgr) <= 1
    /\ Cardinality(LivePools) <= 1
    /\ \A t \in Threads :
        (pc[t] = "idle" /\ fr[t].op = "acquire" /\ fr[t].err = "none") =>
            /\ fr[t].ret = 1 /\ cls_instance = 1
            /\ mgr[1].init_attr
            /\ mgr[1].pool \in LivePools
            /\ Cardinality(LivePools) = 1

C6_Witness ==
    /\ Len(pools) = 1
    /\ \A t \in Threads :
        /\ pc[t] = "idle" /\ fr[t].op = "acquire" /\ fr[t].err = "none"
        /\ fr[t].ret = 1
    /\ \E t, u \in Threads : fr[t].cfg # fr[u].cfg

\* C7: _create_pool either stores a ready pool, or raises
\* DatabaseConnectionError with every pool it constructed closed and the
\* manager holding none.
C7_FailedCreationTornDown ==
    [][\A t \in Threads :
        (Steps(t) /\ pc[t] = "create_pool") =>
            LET m == fr[t].self IN
            \/ /\ fr'[t].err = "none"
               /\ Len(pools') = Len(pools) + 1
               /\ mgr'[m].pool = Len(pools')
               /\ pools'[Len(pools')].closes = 0
            \/ /\ Ends(t)
               /\ fr'[t].err = "DatabaseConnectionError"
               /\ mgr'[m].pool = NoneId
               /\ \A p \in 1..Len(pools') :
                    p > Len(pools) => pools'[p].closes = 1]_vars

C7_Witness ==
    /\ \E t \in Threads :
        /\ pc[t] = "idle" /\ fr[t].op = "acquire"
        /\ fr[t].err = "DatabaseConnectionError"
    /\ \E p \in PoolIds : pools[p].closes = 1
    /\ \A m \in MgrIds : ~mgr[m].closed /\ mgr[m].pool = NoneId
    /\ cls_instance # NoneId

C9_InitOnce ==
    /\ provDone <= 1
    /\ schemaDone <= 1
    /\ Len(dbs) <= 1
    /\ \A t \in Threads :
        (pc[t] = "idle" /\ fr[t].op = "db_init" /\ fr[t].err = "none") =>
            fr[t].ret = db_instance

C12_ConnectDisconnect ==
    [][\A t \in Threads :
        LET d == fr[t].db IN
        Steps(t) =>
            /\ (pc[t] = "dc_chk" /\ dbs[d].pool # NoneId) =>
                /\ Ends(t) /\ fr'[t].err = "none"
                /\ UNCHANGED <<poolVars, dbVars, histVars>>
            /\ (pc[t] = "dd_chk" /\ dbs[d].pool = NoneId) =>
                /\ Ends(t) /\ fr'[t].err = "none"
                /\ UNCHANGED <<poolVars, dbVars, histVars>>
            /\ (fr[t].op = "disconnect" /\ pc[t] = "dd_close"
                    /\ dbs[d].pool # NoneId) =>
                LET m == dbs[d].pool IN
                /\ mgr'[m].pool = NoneId
                /\ mgr[m].pool # NoneId => pools'[mgr[m].pool].closes = 1
            /\ (fr[t].op = "disconnect" /\ pc[t] = "dd_clear") =>
                /\ Ends(t) /\ fr'[t].err = "none"
                /\ dbs'[d].pool = NoneId
            /\ fr[t].op = "disconnect" =>
                UNCHANGED <<db_instance, hist_init>>]_vars

C12_Witness ==
    \E t, u \in Threads :
        /\ pc[t] = "idle" /\ fr[t].op = "disconnect" /\ fr[t].err = "none"
        /\ pc[u] = "idle" /\ fr[u].op = "get_instance" /\ fr[u].ret = 1
        /\ db_instance = 1 /\ Len(dbs) = 1 /\ dbs[1].pool = NoneId
        /\ Len(pools) = 1 /\ pools[1].closes = 1
        /\ cls_instance = NoneId

\* C13: for every use of transaction(): when the scoped block completes
\* normally or returns early, commit is invoked once, and rollback only if
\* that commit raised, whose error (or the rollback's) then reaches the
\* caller; when the block fails with an Exception, rollback is invoked once
\* and commit never, and the caller gets the block's error, or the
\* rollback's own when the rollback fails; an exception that is no Exception
\* passes with neither invoked.
Left(t) == pc[t] = "sq_done" /\ cx[t].shape = "transaction" /\ cx[t].body # "none"

C13_CommitOrRollback ==
    \A t \in Threads :
        LET c == cx[t] IN
        Left(t) =>
            CASE c.body = "ok" /\ c.exc = "none" ->
                    c.commits = 1 /\ c.rollbacks = 0
              [] c.body = "ok" ->
                    /\ c.commits = 1 /\ c.rollbacks = 1
                    /\ c.exc \in {"CommitError", "RollbackError"}
              [] c.body = "BaseException" ->
                    c.commits = 0 /\ c.rollbacks = 0 /\ c.exc = c.body
              [] OTHER ->
                    /\ c.commits = 0 /\ c.rollbacks = 1
                    /\ c.exc \in {c.body, "RollbackError"}

\* C13 as stated: exactly one of commit and rollback is invoked: commit and
\* no rollback when the block completes normally, rollback and no commit and
\* the block's error re-raised when it fails.
C13_ExactlyOne ==
    \A t \in Threads :
        LET c == cx[t] IN
        Left(t) =>
            /\ c.commits + c.rollbacks = 1
            /\ c.body = "ok" => c.commits = 1
            /\ c.body # "ok" => c.rollbacks = 1 /\ c.exc = c.body

C13_Witness ==
    \E t \in Threads : \E u \in Threads \ {t} :
        /\ Left(t) /\ cx[t].op = "transaction" /\ cx[t].blk = "return"
        /\ cx[t].commits = 1 /\ cx[t].rollbacks = 1
        /\ cx[t].exc = "CommitError"
        /\ Left(u) /\ cx[u].op = "transaction" /\ cx[u].body = "ValueError"
        /\ cx[u].commits = 0 /\ cx[u].rollbacks = 1 /\ cx[u].exc = "ValueError"
        /\ tbl = [i \in Ids |-> Absent]

\* C14: the connections checked out are those of the scoped blocks and
\* facade operations still running; one that has ended, however it ended,
\* holds none, so that with every operation completed none is checked out.
C14_ConnectionsReturned ==
    /\ out = Cardinality({t \in Threads : cx[t].held})
    /\ \A t \in Threads :
        cx[t].held <=> pc[t] \in {"sq_stmt", "sq_end", "sq_commit",
                                  "sq_rollback", "sq_exit"}

C14_Witness ==
    /\ out = 0
    /\ ops = MaxSqlOps
    /\ pc["t1"] = "idle" /\ fr["t1"].op = "cursor" /\ fr["t1"].err = "ValueError"
    /\ pc["t2"] = "idle" /\ fr["t2"].op = "fetch_all" /\ fr["t2"].err = "none"
    /\ serial > 1

\* A step of thread t inside the call `op`, from label `from`.
StepOf(t, op, from) ==
    /\ pc[t] = from /\ pc'[t] # from
    /\ cx[t].op = op

\* C15: create_many either raises RepositoryError and none of its rows has
\* been made durable, or returns one entity per row of the batch and exactly
\* the rows it returns have been made durable.
C15_AllOrNothing ==
    [][\A t \in Threads :
        StepOf(t, "create_many", "sq_done") =>
            LET c == cx[t] IN
            IF c.exc # "none"
            THEN fr'[t].err = "RepositoryError" /\ c.saved.rows = {}
            ELSE /\ fr'[t].err = "none"
                 /\ Len(cx'[t].result) = Len(c.arg)
                 /\ c.saved.rows = {cx'[t].result[k].id : k \in 1..Len(c.arg)}
                 /\ Cardinality(c.saved.rows) = Len(c.arg)]_vars

C15_Witness ==
    \E t \in Threads : \E u \in Threads \ {t} :
        /\ pc[t] = "idle" /\ fr[t].op = "create_many"
        /\ fr[t].err = "RepositoryError"
        /\ pc[u] = "idle" /\ fr[u].op = "create_many" /\ fr[u].err = "none"
        /\ cx[u].result = <<[id |-> 1, name |-> "a"], [id |-> 2, name |-> "b"]>>
        /\ tbl = <<"a", "b">>

\* C18: find_by_id of the id of an entity that create() returned, whose row
\* no transaction has written since, reads a row that converts to that
\* entity, and returns that conversion.
C18_RoundTrip ==
    [][\A t \in Threads :
        /\ StepOf(t, "find_by_id", "sq_stmt") /\ pc'[t] = "sq_end" =>
                \A e \in made :
                    e.id = cx[t].id =>
                        /\ cx'[t].res # <<>>
                        /\ RowToEntity(cx'[t].res[1]) = e
        /\ StepOf(t, "find_by_id", "sq_done") /\ cx[t].exc = "none" =>
                /\ fr'[t].err = "none"
                /\ cx'[t].result =
                      [k \in 1..Len(cx[t].res) |-> RowToEntity(cx[t].res[k])]]_vars

C18_Witness ==
    \E t \in Threads : \E u \in Threads \ {t} :
        /\ pc[u] = "idle" /\ fr[u].op = "create" /\ fr[u].err = "none"
        /\ cx[u].result = <<[id |-> 1, name |-> "a"]>> /\ serial = 2
        /\ pc[t] = "idle" /\ fr[t].op = "find_by_id" /\ fr[t].err = "none"
        /\ cx[t].result = cx[u].result
        /\ cx[u].result[1] \in made

\* C19: delete(id) returns True when its committed statement removed the
\* row and False when it removed none; an exists(id) that reads while id is
\* among the ids a delete() removed and nobody inserted again finds no row
\* and returns False.
C19_Delete ==
    [][\A t \in Threads :
        /\ StepOf(t, "delete", "sq_done") /\ cx[t].exc = "none" =>
                /\ fr'[t].err = "none"
                /\ cx'[t].flag = IF cx[t].id \in cx[t].saved.gone
                                 THEN "True" ELSE "False"
        /\ StepOf(t, "delete", "sq_stmt") /\ pc'[t] = "sq_end" =>
                cx'[t].rowcount = IF tbl[cx[t].id] # Absent THEN 1 ELSE 0
        /\ StepOf(t, "exists", "sq_stmt") /\ pc'[t] = "sq_end" =>
                (cx[t].id \in gone => cx'[t].res = <<>>)
        /\ StepOf(t, "exists", "sq_done") /\ cx[t].exc = "none" =>
                /\ fr'[t].err = "none"
                /\ cx'[t].flag = IF cx[t].res = <<>> THEN "False" ELSE "True"]_vars

C19_Witness ==
    \E t \in Threads : \E u \in Threads \ {t} :
        /\ pc[u] = "idle" /\ fr[u].op = "delete" /\ fr[u].err = "none"
        /\ cx[u].flag = "True" /\ cx[u].id = 1
        /\ pc[t] = "idle" /\ fr[t].op = "exists" /\ fr[t].err = "none"
        /\ cx[t].flag = "False" /\ cx[t].id = 1
        /\ 1 \in gone /\ serial > 1

\* C20: update raises RepositoryError before any statement when the
\* converted row has no primary key; its statement never sets the key; when
\* the statement reaches the server it changes the row with that key and no
\* other, or nothing when there is no such row, and the call then raises
\* RepositoryError.
C20_Update ==
    [][\A t \in Threads :
        LET c == cx[t]
            row == EntityToRow(c.arg[1])
        IN
        /\ StepOf(t, "update", "sq_begin") =>
                IF "id" \in row.cols
                THEN /\ pc'[t] = "sq_enter"
                     /\ "id" \notin cx'[t].stmts[1].cols
                ELSE /\ pc'[t] = "idle" /\ fr'[t].err = "RepositoryError"
                     /\ cx'[t].issued = 0 /\ tbl' = tbl
        /\ StepOf(t, "update", "sq_stmt")
                /\ cx'[t].exc # "OperationalError" =>
                IF tbl[row.id] = Absent
                THEN cx'[t].res = <<>> /\ cx'[t].pend = c.pend
                ELSE /\ pc'[t] = "sq_end"
                     /\ cx'[t].pend =
                          [c.pend EXCEPT ![row.id] =
                              IF "name" \in row.cols THEN row.name
                              ELSE tbl[row.id]]
        /\ StepOf(t, "update", "sq_done") /\ c.exc = "none" =>
                IF c.res = <<>>
                THEN fr'[t].err = "RepositoryError" /\ c.saved.rows = {}
                ELSE fr'[t].err = "none" /\ c.saved.rows = {row.id}]_vars

\* C16: after successive run_migration calls for a name, all of them with
\* skip_if_applied, the first has returned True and every later one False,
\* the migration's SQL has been run once and committed once, and the name
\* is recorded.
CallsFor(n) == LET named(e) == e.name = n IN SelectSeq(mlog, named)

C16_AppliedOnce ==
    (\A t \in Threads : pc[t] = "idle") =>
        \A n \in MigrationNames :
            LET calls == CallsFor(n) IN
            (calls # <<>> /\ \A k \in 1..Len(calls) : calls[k].skip) =>
                /\ \A k \in 1..Len(calls) :
                      calls[k].flag = IF k = 1 THEN "True" ELSE "False"
                /\ sqlCount[n] = [run |-> 1, done |-> 1]
                /\ n \in migs

C16_Witness ==
    /\ \A t \in Threads : pc[t] = "idle" /\ fr[t].op = "run_migration"
    /\ cx["t1"].flag = "True" /\ cx["t2"].flag = "False"
    /\ Len(CallsFor("m1")) = 2
    /\ \A k \in 1..2 : CallsFor("m1")[k].skip
    /\ sqlCount["m1"] = [run |-> 1, done |-> 1]

\* C17: a run_migration call makes durable both the SQL's effect and the
\* name, and returns True, or neither, and does not return True; on the
\* server a migration's SQL is committed once when its name is recorded and
\* never otherwise.
C17_Atomic ==
    /\ \A n \in MigrationNames :
          sqlCount[n].done = IF n \in migs THEN 1 ELSE 0
    /\ \A t \in Threads : cx[t].saved.sql = cx[t].saved.marks
    /\ \A k \in 1..Len(mlog) :
          /\ mlog[k].sql = mlog[k].marks
          /\ mlog[k].sql = IF mlog[k].flag = "True" THEN {mlog[k].name} ELSE {}

C17_Witness ==
    /\ Len(mlog) = 3
    /\ mlog[1].flag = "raised" /\ ~mlog[1].skip
    /\ mlog[2].flag = "True" /\ ~mlog[2].skip
    /\ mlog[3].flag = "raised" /\ ~mlog[3].skip
    /\ sqlCount["m1"] = [run |-> 3, done |-> 1]
    /\ migs = {"m1"}

\* C21: delete_by with an empty condition mapping raises RepositoryError
\* before any connection is asked for: no statement is issued and no row is
\* deleted; and no DELETE that delete_by issues lacks a WHERE clause.
C21_DeleteByEmpty ==
    [][\A t \in Threads :
        /\ StepOf(t, "delete_by", "sq_begin") /\ cx[t].conds = <<>> =>
                /\ pc'[t] = "idle"
                /\ fr'[t].err = "RepositoryError"
                /\ cx[t].issued = 0 /\ ~cx[t].held
                /\ tbl' = tbl /\ out' = out
        /\ cx'[t].op = "delete_by" =>
                \A k \in 1..Len(cx'[t].stmts) :
                    /\ cx'[t].stmts[k].k = "delete_where"
                    /\ cx'[t].stmts[k].where # <<>>]_vars

C21_Witness ==
    \E t \in Threads :
        /\ pc[t] = "idle" /\ fr[t].op = "delete_by"
        /\ fr[t].err = "RepositoryError" /\ cx[t].cause = "none"
        /\ tbl[1] = "a" /\ tbl[2] = NoName

\* C22: in the statement that find_by, count or delete_by issues for a
\* non-empty condition mapping there is one predicate per condition, in
\* order: `col IS NULL` exactly for a None value, `col = %s` for every
\* other value, 0, False and "" included; the bound values are the non-None
\* values in condition order, one per placeholder.
C22_Conditions ==
    \A t \in Threads :
        LET c == cx[t]
            s == Head(c.stmts)
            bound(k) == Cardinality({j \in 1..k : c.conds[j].val # "None"})
        IN
        pc[t] = "sq_stmt" /\ c.op \in {"find_by", "count", "delete_by"}
        /\ c.conds # <<>> =>
            /\ Len(s.where) = Len(c.conds)
            /\ \A k \in 1..Len(c.conds) :
                    /\ s.where[k].col = c.conds[k].col
                    /\ s.where[k].null = (c.conds[k].val = "None")
            /\ Len(s.params) = bound(Len(c.conds))
            /\ \A k \in 1..Len(c.conds) :
                    c.conds[k].val # "None" =>
                        s.params[bound(k)] = c.conds[k].val
            /\ Cardinality({k \in 1..Len(s.where) : ~s.where[k].null})
                   = Len(s.params)

C22_Witness ==
    \E t \in Threads : \E u \in Threads \ {t} :
        /\ pc[t] = "sq_end" /\ cx[t].op = "find_by"
        /\ cx[t].conds = <<Cond("id", "1"), Cond("name", None)>>
        /\ cx[t].res = <<>> /\ tbl[1] = "a" /\ tbl[2] = NoName
        /\ pc[u] = "sq_end" /\ cx[u].op = "count"
        /\ cx[u].conds = <<Cond("name", "")>>
        /\ cx[u].rowcount = 0

\* C23: a public repository operation that fails raises RepositoryError; a
\* driver error is wrapped with the original as cause, and an error that is
\* already a RepositoryError, such as one a conversion function raised, goes
\* to the caller as it is: the error raised never has a RepositoryError as
\* its cause.
C23_ErrorPolicy ==
    [][\A t \in Threads :
        pc[t] = "sq_done" /\ pc'[t] = "idle" /\ cx[t].op \in RepoOps
        /\ fr'[t].err # "none" =>
            /\ fr'[t].err = "RepositoryError"
            /\ cx[t].exc \notin {"none", "RepositoryError"} =>
                    cx'[t].cause = cx[t].exc
            /\ cx'[t].cause # "RepositoryError"]_vars

\* C24: a query method of the Database facade (execute, execute_many,
\* fetch_one, fetch_all, fetch_value, table_exists) that fails raises an
\* error of one of the package's own kinds, never the driver's error.
C24_FacadeErrors ==
    [][\A t \in Threads :
        pc[t] = "sq_done" /\ pc'[t] = "idle"
        /\ cx[t].op \in {"execute", "execute_many", "fetch_one", "fetch_all",
                          "fetch_value", "table_exists"}
        /\ fr'[t].err # "none" =>
            fr'[t].err \in {"PyPgKitError", "DatabaseConnectionError",
                            "SchemaError", "UserManagementError",
                            "RepositoryError", "ConfigurationError"}]_vars

\* C25: return_connection() and close() never raise, whether the driver's
\* putconn or close fails or the manager has no pool any more; after close()
\* the manager is marked closed and holds no pool; after reset() the
\* singleton state is cleared.  All of it also when the driver's close fails.
C25_ReleaseNeverRaises ==
    [][\A t \in Threads :
        /\ Steps(t) /\ pc[t] \in {"close", "ret_conn"} =>
                pc'[t] = "idle" /\ fr'[t].err = "none"
        /\ Steps(t) /\ pc[t] = "close" =>
                /\ mgr'[fr[t].self].closed
                /\ mgr'[fr[t].self].pool = NoneId
        /\ Steps(t) /\ pc[t] = "reset" =>
                /\ cls_instance' = NoneId
                /\ ~cls_initialized'
                /\ pool_pid' = NoneId]_vars

C25_Witness ==
    \E t \in Threads : \E u \in Threads \ {t} :
        /\ pc[t] = "idle" /\ fr[t].op = "close" /\ fr[t].log = <<"warning">>
        /\ fr[t].err = "none"
        /\ pc[u] = "idle" /\ fr[u].op = "return_connection"
        /\ fr[u].log = <<"warning">> /\ fr[u].err = "none"
        /\ \E m \in MgrIds : mgr[m].closed /\ mgr[m].pool = NoneId
        /\ \E p \in PoolIds : pools[p].closes = 1

\* C26: DatabaseConfig(...) succeeds exactly when 1 <= port <= 65535,
\* min_connections >= 1, max_connections >= min_connections,
\* connection_timeout > 0 and sslmode is one of the six modes; otherwise it
\* raises ConfigurationError.
C26_ConfigValid ==
    \A t \in Threads :
        LET f == fr[t].fields IN
        pc[t] = "idle" /\ fr[t].op = "config" =>
            /\ fr[t].err \in {"none", "ConfigurationError"}
            /\ fr[t].err = "none" <=>
                    /\ 1 <= f.port /\ f.port <= 65535
                    /\ f.min_connections >= 1
                    /\ f.max_connections >= f.min_connections
                    /\ f.connection_timeout.kind = "num"
                    /\ f.connection_timeout.v > 0
                    /\ f.sslmode \in {"disable", "allow", "prefer", "require",
                                      "verify-ca", "verify-full"}

\* C27: a Database object that has connected and is not being and has not
\* been disconnected itself holds a manager whose pool is live, whatever
\* connect(), disconnect() and queries run on the other object; a query on
\* it does not fail with the manager's 'pool not initialized' error.
C27_OtherFacadeKeepsPool ==
    [][\A t \in Threads :
        LET d == fr[t].db
            own == \E u \in Threads :
                      /\ pc[u] \in {"dd_chk", "dd_close", "dd_reset", "dd_clear"}
                      /\ fr[u].db = d
        IN
        Steps(t) /\ pc[t] = "q_use" /\ dbs[d].pool # NoneId /\ ~own =>
            fr'[t].err # "DatabaseConnectionError"]_vars

\* C28: update(entity) leaves the caller's entity object and the mapping that
\* _entity_to_row returned as they were, the primary key still in them,
\* whether the conversion copies or returns the entity itself; an update()
\* with the same object again gets as far as the first.
C28_UpdateKeepsEntity ==
    [][\A t \in Threads :
        StepOf(t, "update", "sq_begin") =>
            /\ cx'[t].obj = cx[t].obj
            /\ pc'[t] # "idle" => cx'[t].row = EntityToRow(cx[t].arg[1])
            /\ cx[t].again => pc'[t] # "idle"]_vars

\* C29: a create_many that succeeds has made durable, for every entity of
\* the batch in order, the row that create() of that entity makes durable:
\* the entity's own values under its own columns, the id its own when it has
\* one; and it returns one entity per input entity, in input order.
C29_CreateManyAsCreate ==
    [][\A t \in Threads :
        /\ StepOf(t, "create_many", "sq_commit") /\ pc'[t] = "sq_exit"
           /\ cx'[t].exc = "none" =>
                /\ Len(cx[t].res) = Len(cx[t].arg)
                /\ \A k \in 1..Len(cx[t].arg) :
                        LET e == cx[t].arg[k]
                            r == cx[t].res[k]
                        IN /\ e.id # 0 => r.id = e.id
                           /\ tbl'[r.id] = e.name
        /\ StepOf(t, "create_many", "sq_done") /\ fr'[t].err = "none" =>
                /\ Len(cx'[t].result) = Len(cx[t].arg)
                /\ \A k \in 1..Len(cx[t].arg) :
                        LET e == cx[t].arg[k]
                            r == cx'[t].result[k]
                        IN /\ e.id # 0 => r.id = e.id
                           /\ r.name = e.name]_vars

\* The calls whose commits have recorded name n.
Recorders(n) ==
    {k \in 1..Len(mlog) : n \in mlog[k].marks}
        \cup {t \in Threads : n \in cx[t].saved.marks}

\* C30: however run_migration calls with the same name interleave, two
\* with skip_if_applied=True that both found the name not applied included,
\* the SQL's effect is committed at most once and at most one call's commit
\* records the name.
C30_ConcurrentOnce ==
    \A n \in MigrationNames :
        /\ sqlCount[n].done <= 1
        /\ Cardinality(Recorders(n)) <= 1

C30_Witness ==
    /\ Len(mlog) = 2
    /\ mlog[1].skip /\ mlog[2].skip
    /\ mlog[1].name = "m1" /\ mlog[2].name = "m1"
    /\ {mlog[1].flag, mlog[2].flag} = {"True", "raised"}
    /\ sqlCount["m1"].run = 2 /\ sqlCount["m1"].done = 1
    /\ migs = {"m1"}
=============================================================================
